---------------------------- MODULE Spec2Model ----------------------------
(***************************************************************************)
(* A model of the retrieval-augmented answering engine of                  *)
(* src/src/python/services/rag_api/core/rag_core.py (class RagCore) and    *)
(* of the request handlers of routers/ask.py that drive it.                *)
(*                                                                         *)
(* Python str values are TLA+ strings; Len, SubSeq and \o work on them.    *)
(***************************************************************************)
EXTENDS Integers, Sequences, FiniteSets, TLC

VARIABLES
    cite_pc,        \* _has_valid_citations: "call" before, "return" after
    cite_answer,    \* its argument answer
    cite_k,         \* its argument k
    cite_result,    \* its return value
    ch_pc,          \* chunk_text: "call", "loop" (at the while test), "return"
    ch_text,        \* its argument text
    ch_max,         \* its argument max_tokens
    ch_overlap,     \* its argument overlap_tokens
    ch_words,       \* words = text.split()
    ch_i,           \* the window start i
    ch_chunks,      \* chunks, the list it returns
    ch_windows,     \* the (i, j) of every chunk appended, in order
    cfg,            \* RagCore.cfg, the frozen RagConfig
    available_models, \* RagCore._available_models: None or the list of names
    probe_answer,   \* what the last GET /api/tags got: "ok", "status", "exception"
    sel_pc,         \* model selection: "idle", or the call that has returned
    sel_task,       \* select_model_for_task: its argument task_type
    sel_domain,     \* its argument domain
    sel_query,      \* its argument query
    sel_preferred,  \* the preferred_model handed to _get_available_model
    sel_result,     \* the model name returned
    store_exists,   \* the vector store: whether the collection exists
    store_points,   \* the vector store: the points of the collection
    ing_pc,         \* ingest_text: "idle", "list", "create", "recreate", "upsert",
                    \* "done"
    ing_doc,        \* its argument doc_id
    ing_text,       \* its argument text
    ing_result,     \* what the call returned: [ok, chunks]
    ing_before,     \* the points the store held when the call was made
    ing_passages,   \* the passages given to ingest_plain_chunks; not given
                    \* when the call is ingest_text
    req_pc,         \* the ask request: "idle", "query_points", "search", "rerank",
                    \* "top", "prompt", "generate", "chat", "validate", "done",
                    \* "error"
    req_kind,       \* the handler: "ask_local", "ask_local_with_model_selection",
                    \* "ask_enhanced", "rag_search"
    req_query,      \* the query
    req_k,          \* the k the handler hands to search
    req_task,       \* task_type
    req_domain,     \* detect_domain(query): [domain, confidence]
    req_model,      \* the model generation is asked for
    req_hits,       \* hits = search(query, topk)
    req_ranked,     \* ranked, of rerank(query, hits)
    req_scores,     \* scores, of rerank(query, hits)
    req_prompt,     \* prompt, of build_prompt
    req_cmap,       \* cmap, of build_prompt
    req_calls,      \* the calls made to the collaborators, in order
    req_text,       \* what the generation function returned, before strip()
    req_result,     \* the dict returned to the caller
    rr_pc,          \* rerank called on its own: "call" or "return"
    rr_passages,    \* its argument passages
    rr_scorer,      \* the score the cross-encoder gives each passage for the query
    rr_called,      \* whether reranker.predict was invoked
    rr_ranked,      \* the passage list returned
    rr_scores,      \* the score list returned
    dd_pc,          \* detect_domain called on its own: "call" or "return"
    dd_text,        \* its argument text
    dd_result,      \* the (domain, confidence) returned
    bp_pc,          \* build_prompt called on its own: "call" or "return"
    bp_query,       \* its argument query
    bp_ranked,      \* its argument ranked
    bp_k,           \* its argument k (0 also stands for None)
    bp_result,      \* the (prompt, cmap) returned
    rc_pc,          \* _get_available_model next to a refresh: "idle", "none_check",
                    \* "snapshot", "resolve", "done"
    rc_preferred,   \* its argument preferred_model
    rc_local,       \* its local available_models
    rc_pre,         \* the cache when the resolution began
    rc_post,        \* the cache the refresh left, rc_pre while there was none
    rc_refresh,     \* _check_model_availability in another thread: "idle",
                    \* "probed", "assigned"
    rc_new,         \* the list that thread has built from the answer
    rc_result,      \* the model name returned
    su_pc,          \* _ensure_collection_with_retry: "loop", "sleep", "final",
                    \* "returned", "raised"
    su_retries,     \* cfg.qdrant_retries
    su_delay,       \* cfg.qdrant_retry_delay
    su_attempts,    \* the calls of _ensure_collection made so far
    su_failed,      \* how many of them raised
    su_waited,      \* the time spent in time.sleep so far
    crawl_jobs,     \* the dict crawl_jobs of the crawler router, by job_id
    crawl_tasks,    \* the background tasks crawl_and_ingest, by the start_crawl call
    crawl_count     \* the start_crawl calls that have added an entry

citeVars == <<cite_pc, cite_answer, cite_k, cite_result>>

chunkVars == <<ch_pc, ch_text, ch_max, ch_overlap, ch_words, ch_i, ch_chunks,
               ch_windows>>

routerVars == <<cfg, available_models, probe_answer, sel_pc, sel_task, sel_domain, sel_query,
                sel_preferred, sel_result>>

storeVars == <<store_exists, store_points>>

ingestVars == <<ing_pc, ing_doc, ing_text, ing_result, ing_before, ing_passages>>

reqVars == <<req_pc, req_kind, req_query, req_k, req_task, req_domain, req_model, req_hits,
             req_ranked, req_scores, req_prompt, req_cmap, req_calls, req_text,
             req_result>>

rerankVars == <<rr_pc, rr_passages, rr_scorer, rr_called, rr_ranked, rr_scores>>

domainVars == <<dd_pc, dd_text, dd_result>>

promptVars == <<bp_pc, bp_query, bp_ranked, bp_k, bp_result>>

raceVars == <<rc_pc, rc_preferred, rc_local, rc_pre, rc_post, rc_refresh, rc_new,
              rc_result>>

startupVars == <<su_pc, su_retries, su_delay, su_attempts, su_failed, su_waited>>

crawlVars == <<crawl_jobs, crawl_tasks, crawl_count>>

vars == <<citeVars, chunkVars, routerVars, storeVars, ingestVars, reqVars, rerankVars,
          domainVars, promptVars, raceVars,
          startupVars, crawlVars>>

\* what each component leaves alone
notCiteVars == <<chunkVars, routerVars, storeVars, ingestVars, reqVars,
                 rerankVars, domainVars, promptVars, raceVars,
          startupVars, crawlVars>>

notChunkVars == <<citeVars, routerVars, storeVars, ingestVars, reqVars,
                  rerankVars, domainVars, promptVars, raceVars,
          startupVars, crawlVars>>

notRouterVars == <<citeVars, chunkVars, storeVars, ingestVars, reqVars,
                   rerankVars, domainVars, promptVars, raceVars,
          startupVars, crawlVars>>

notIngestVars == <<citeVars, chunkVars, routerVars, reqVars,
                   rerankVars, domainVars, promptVars, raceVars,
          startupVars, crawlVars>>

notReqVars == <<citeVars, chunkVars, routerVars, storeVars, ingestVars,
                rerankVars, domainVars, promptVars, raceVars,
          startupVars, crawlVars>>

notRerankVars == <<citeVars, chunkVars, routerVars, storeVars, ingestVars, reqVars,
                   domainVars, promptVars, raceVars,
          startupVars, crawlVars>>

notDomainVars == <<citeVars, chunkVars, routerVars, storeVars, ingestVars, reqVars,
                   rerankVars, promptVars, raceVars,
          startupVars, crawlVars>>

notPromptVars == <<citeVars, chunkVars, routerVars, storeVars, ingestVars, reqVars,
                   rerankVars, domainVars, raceVars,
          startupVars, crawlVars>>

\* the race component reads and writes the cache of routerVars
notRaceVars == <<citeVars, chunkVars, storeVars, ingestVars, reqVars, rerankVars,
                 domainVars, promptVars, cfg, sel_pc, sel_task, sel_domain, sel_query,
                 sel_preferred, sel_result, startupVars, crawlVars>>

\* the startup component creates the collection of storeVars
notStartupVars == <<citeVars, chunkVars, routerVars, ingestVars, reqVars, rerankVars,
                    domainVars, promptVars, raceVars, crawlVars>>

\* the crawl task ingests into the collection of storeVars
notCrawlVars == <<citeVars, chunkVars, routerVars, ingestVars, reqVars,
                  rerankVars, domainVars, promptVars, raceVars, startupVars>>

(***************************************************************************)
(* Bounds of the model.                                                    *)
(***************************************************************************)
MaxAnsLen == 5      \* longest answer enumerated exhaustively
MaxK == 2           \* largest k handed to _has_valid_citations
MaxWordCount == 5   \* most words of a text handed to chunk_text
MaxTokens == 3      \* largest max_tokens handed to chunk_text
MaxPassages == 3    \* longest passage list handed to rerank on its own
MaxDomainWords == 3 \* most words of a text handed to detect_domain on its own
MaxOverlap == 3     \* largest overlap_tokens handed to chunk_text

(***************************************************************************)
(* Python str helpers.                                                     *)
(***************************************************************************)
Chr(s, i) == SubSeq(s, i, i)

Digits == {"0", "1", "2", "3", "4", "5", "6", "7", "8", "9"}

Whitespace == {" ", "\t", "\n", "\r", "\f"}

DigitVal(c) ==
    CASE c = "0" -> 0 [] c = "1" -> 1 [] c = "2" -> 2 [] c = "3" -> 3
      [] c = "4" -> 4 [] c = "5" -> 5 [] c = "6" -> 6 [] c = "7" -> 7
      [] c = "8" -> 8 [] c = "9" -> 9

\* int(m) for a string of decimal digits
RECURSIVE ParseInt(_)
ParseInt(m) ==
    IF Len(m) = 0 THEN 0
    ELSE 10 * ParseInt(SubSeq(m, 1, Len(m) - 1)) + DigitVal(Chr(m, Len(m)))

\* the end of the run of digits of s that starts at position i
RECURSIVE DigitRunEnd(_, _)
DigitRunEnd(s, i) ==
    IF i <= Len(s) /\ Chr(s, i) \in Digits THEN DigitRunEnd(s, i + 1) ELSE i

\* re.findall(r"\[(\d+)\]", s): scan from position i, left to right; a match
\* consumes its text, a failed position advances the scan by one character.
RECURSIVE FindAllFrom(_, _)
FindAllFrom(s, i) ==
    IF i > Len(s) THEN <<>>
    ELSE IF Chr(s, i) = "["
         THEN LET e == DigitRunEnd(s, i + 1)
              IN  IF e > i + 1 /\ e <= Len(s) /\ Chr(s, e) = "]"
                  THEN <<SubSeq(s, i + 1, e - 1)>> \o FindAllFrom(s, e + 1)
                  ELSE FindAllFrom(s, i + 1)
         ELSE FindAllFrom(s, i + 1)

ReFindAllCitations(s) == FindAllFrom(s, 1)

\* RagCore._has_valid_citations(answer, k)
HasValidCitationsNoLowerBound(answer, k) ==
    LET matches == ReFindAllCitations(answer)
    IN  IF Len(matches) = 0 THEN FALSE
        ELSE \A x \in 1..Len(matches) : ~(ParseInt(matches[x]) > k)

HasValidCitations(answer, k) ==
    LET matches == ReFindAllCitations(answer)
    IN  IF Len(matches) = 0 THEN FALSE
        ELSE \A x \in 1..Len(matches) :
                LET n == ParseInt(matches[x]) IN ~(n < 1 \/ n > k)

(***************************************************************************)
(* _has_valid_citations called on its own: the arguments are drawn by      *)
(* CiteInit, CiteCall is the call.                                         *)
(***************************************************************************)
CiteAlphabet == {"[", "]", "0", "1", "2", "a"}

RECURSIVE StringsUpTo(_, _)
StringsUpTo(alphabet, n) ==
    IF n = 0 THEN {""}
    ELSE LET shorter == StringsUpTo(alphabet, n - 1)
         IN  shorter \cup {s \o c : s \in shorter, c \in alphabet}

\* answers of the repository's own checks, longer than MaxAnsLen
CiteSamples ==
    { "The policy requires X [1].", "No citation here.", "See [4].",
      "a [1][2].", "b [01] c [10]", "[1] [x] [2", "[12]", "[ 1 ]" }

CiteInputs == StringsUpTo(CiteAlphabet, MaxAnsLen) \cup CiteSamples

CiteInit ==
    /\ cite_pc = "call"
    /\ cite_answer \in CiteInputs
    /\ cite_k \in 0..MaxK
    /\ cite_result = FALSE

CiteIdle ==
    /\ cite_pc = "return"
    /\ cite_answer = ""
    /\ cite_k = 0
    /\ cite_result = FALSE

CiteCall ==
    /\ cite_pc = "call"
    /\ cite_result' = HasValidCitations(cite_answer, cite_k)
    /\ cite_pc' = "return"
    /\ UNCHANGED <<cite_answer, cite_k>>
    /\ UNCHANGED notCiteVars


(***************************************************************************)
(* The citation tokens of an answer, stated by position.                   *)
(***************************************************************************)
RECURSIVE Pow10(_)
Pow10(e) == IF e = 0 THEN 1 ELSE 10 * Pow10(e - 1)

\* the positions (i, j) of the tokens of s: s[i] = "[", s[j] = "]", digits between
CitationTokens(s) ==
    { p \in (1..Len(s)) \X (1..Len(s)) :
        /\ p[2] >= p[1] + 2
        /\ Chr(s, p[1]) = "["
        /\ Chr(s, p[2]) = "]"
        /\ \A q \in (p[1] + 1)..(p[2] - 1) : Chr(s, q) \in Digits }

\* the decimal number written between positions i and j
TokenNumber(s, i, j) ==
    LET Term[q \in (i + 1)..(j - 1)] == DigitVal(Chr(s, q)) * Pow10(j - 1 - q)
        Sum[q \in i..(j - 1)] == IF q = i THEN 0 ELSE Sum[q - 1] + Term[q]
    IN  Sum[j - 1]

CitationsAllInRange(s, k) ==
    /\ CitationTokens(s) # {}
    /\ \A p \in CitationTokens(s) :
          /\ 1 <= TokenNumber(s, p[1], p[2])
          /\ TokenNumber(s, p[1], p[2]) <= k

(***************************************************************************)
(* C4: has_valid_citations(answer, k) is true if and only if the answer    *)
(* holds at least one token "[" digits "]" and the number of every such    *)
(* token lies in 1..k; no token, a 0 or a number above k make it false.    *)
(***************************************************************************)
C4_HasValidCitationsIff ==
    cite_pc = "return" =>
        (cite_result <=> CitationsAllInRange(cite_answer, cite_k))

C4_Witness ==
    /\ cite_pc = "return"
    /\ cite_result
    /\ cite_k = 2
    /\ Cardinality(CitationTokens(cite_answer)) >= 2

(***************************************************************************)
(* Python str.split(), " ".join(), min and max.                            *)
(***************************************************************************)
Min(a, b) == IF a <= b THEN a ELSE b

Max(a, b) == IF a >= b THEN a ELSE b

\* the end of the run of non-whitespace characters of s that starts at i
RECURSIVE WordRunEnd(_, _)
WordRunEnd(s, i) ==
    IF i <= Len(s) /\ Chr(s, i) \notin Whitespace THEN WordRunEnd(s, i + 1) ELSE i

\* s.split(): the runs of non-whitespace characters, from position i on
SplitFrom(s, i) ==
    LET n == Len(s)
        From[b \in 1..(n + 1)] ==
            IF b > n THEN <<>>
            ELSE IF Chr(s, b) \in Whitespace THEN From[b + 1]
                 ELSE LET e == WordRunEnd(s, b)
                      IN  <<SubSeq(s, b, e - 1)>> \o From[e]
    IN  From[i]

Split(s) == SplitFrom(s, 1)

\* sep.join(ws)
RECURSIVE Join(_, _)
Join(ws, sep) ==
    IF Len(ws) = 0 THEN ""
    ELSE IF Len(ws) = 1 THEN ws[1]
         ELSE ws[1] \o sep \o Join(Tail(ws), sep)

(***************************************************************************)
(* RagCore.chunk_text(text, max_tokens, overlap_tokens), one action per    *)
(* pass of its while loop.  Positions are Python's: words[i:j] is          *)
(* SubSeq(words, i + 1, j).                                                *)
(***************************************************************************)
\* j = min(i + max_tokens, n)
\* faulty variant: the window takes one word more than max_tokens
ChunkWindowEndOneMore(i, max_tokens, n) == Min(i + max_tokens + 1, n)

ChunkWindowEnd(i, max_tokens, n) == Min(i + max_tokens, n)

ChunkNextStartNoOverlapBack(j, overlap_tokens) == Max(0, j + 1 - overlap_tokens)

\* i = max(0, j - overlap_tokens)
ChunkNextStart(j, overlap_tokens) == Max(0, j - overlap_tokens)

\* the loop is cut off after this many chunks (it need not end by itself)
MaxChunks == MaxWordCount + 2

ChunkWordPool == <<"a", "bb", "c", "d", "e", "f", "g", "h">>

ChunkText(n, sep, pad) == pad \o Join(SubSeq(ChunkWordPool, 1, n), sep) \o pad

ChunkInputs ==
    { ChunkText(n, sep, pad) :
        n \in 0..MaxWordCount, sep \in {" ", "\n \t"}, pad \in {"", "  "} }

ChunkInit ==
    /\ ch_pc = "call"
    /\ ch_text \in ChunkInputs
    /\ ch_max \in 1..MaxTokens
    /\ ch_overlap \in 0..MaxOverlap
    /\ ch_words = <<>>
    /\ ch_i = 0
    /\ ch_chunks = <<>>
    /\ ch_windows = <<>>

ChunkIdle ==
    /\ ch_pc = "return"
    /\ ch_text = ""
    /\ ch_max = 1
    /\ ch_overlap = 0
    /\ ch_words = <<>>
    /\ ch_i = 0
    /\ ch_chunks = <<>>
    /\ ch_windows = <<>>

\* words = text.split(); if not words: return []; chunks = []; i, n = 0, len(words)
ChunkCall ==
    /\ ch_pc = "call"
    /\ ch_words' = Split(ch_text)
    /\ ch_pc' = IF Len(ch_words') = 0 THEN "return" ELSE "loop"
    /\ ch_i' = 0
    /\ ch_chunks' = <<>>
    /\ ch_windows' = <<>>
    /\ UNCHANGED <<ch_text, ch_max, ch_overlap>>
    /\ UNCHANGED notChunkVars

\* one pass of: while i < n
ChunkStep ==
    /\ ch_pc = "loop"
    /\ Len(ch_chunks) < MaxChunks
    /\ LET n == Len(ch_words)
           j == ChunkWindowEnd(ch_i, ch_max, n)
       IN  IF ch_i < n
           THEN /\ ch_chunks' = Append(ch_chunks, Join(SubSeq(ch_words, ch_i + 1, j), " "))
                /\ ch_windows' = Append(ch_windows, <<ch_i, j>>)
                /\ IF j = n
                   THEN ch_pc' = "return" /\ ch_i' = ch_i
                   ELSE ch_pc' = "loop" /\ ch_i' = ChunkNextStart(j, ch_overlap)
           ELSE /\ ch_pc' = "return"
                /\ UNCHANGED <<ch_chunks, ch_windows, ch_i>>
    /\ UNCHANGED <<ch_text, ch_max, ch_overlap, ch_words>>
    /\ UNCHANGED notChunkVars

(***************************************************************************)
(* Python str.lower() and the operator in on str.                          *)
(***************************************************************************)
LowerChar(c) ==
    CASE c = "A" -> "a" [] c = "B" -> "b" [] c = "C" -> "c" [] c = "D" -> "d"
      [] c = "E" -> "e" [] c = "F" -> "f" [] c = "G" -> "g" [] c = "H" -> "h"
      [] c = "I" -> "i" [] c = "J" -> "j" [] c = "K" -> "k" [] c = "L" -> "l"
      [] c = "M" -> "m" [] c = "N" -> "n" [] c = "O" -> "o" [] c = "P" -> "p"
      [] c = "Q" -> "q" [] c = "R" -> "r" [] c = "S" -> "s" [] c = "T" -> "t"
      [] c = "U" -> "u" [] c = "V" -> "v" [] c = "W" -> "w" [] c = "X" -> "x"
      [] c = "Y" -> "y" [] c = "Z" -> "z"
      [] OTHER -> c

\* s.lower(), half by half
RECURSIVE Lower(_)
Lower(s) ==
    IF Len(s) = 0 THEN ""
    ELSE IF Len(s) = 1 THEN LowerChar(s)
         ELSE LET h == Len(s) \div 2
              IN  Lower(SubSeq(s, 1, h)) \o Lower(SubSeq(s, h + 1, Len(s)))

\* len(s.split()): one word for every maximal run of non-whitespace characters
WordCount(s) ==
    Cardinality({ i \in 1..Len(s) :
                    /\ Chr(s, i) \notin Whitespace
                    /\ (i = 1 \/ Chr(s, i - 1) \in Whitespace) })

\* sub in s
Contains(s, sub) ==
    \E x \in 1..(Len(s) - Len(sub) + 1) : SubSeq(s, x, x + Len(sub) - 1) = sub

(***************************************************************************)
(* RagConfig and the model names of the repository.                        *)
(***************************************************************************)
Phi35 == "phi3.5:3.8b-mini-instruct-q4_0"

Llama70b == "llama3.1:70b"

Llama8b == "llama3.1:8b"

Mixtral == "mixtral:8x7b-instruct-v0.1-q4_0"

CodeLlama == "codellama:13b"

\* a model of the backend that the repository does not name
OtherModel == "qwen2.5:7b"

ModelNames == {Phi35, Llama70b, Llama8b, Mixtral, CodeLlama, OtherModel}

\* RagConfig with no environment variable set
DefaultConfig ==
    [ ollama_model |-> Phi35,
      code_generation_model |-> CodeLlama,
      code_explanation_model |-> CodeLlama,
      general_chat_model |-> Llama8b,
      technical_model |-> Llama70b,
      topk |-> 12,
      context_k |-> 4 ]

\* RagConfig with OLLAMA_MODEL, CODE_EXPLAIN_MODEL and CHAT_MODEL set
CustomConfig ==
    [ DefaultConfig EXCEPT !.ollama_model = OtherModel,
                           !.code_explanation_model = Mixtral,
                           !.general_chat_model = Phi35 ]

Configs == {DefaultConfig, CustomConfig}

(***************************************************************************)
(* Python floats of detect_domain, kept as exact fractions n / d, d > 0.   *)
(***************************************************************************)
RECURSIVE Gcd(_, _)
Gcd(a, b) == IF b = 0 THEN a ELSE Gcd(b, a % b)

\* n / d in lowest terms (n >= 0, d > 0)
Frac(n, d) == LET g == Gcd(n, d) IN [n |-> n \div g, d |-> d \div g]

FracLeq(a, b) == a.n * b.d <= b.n * a.d

FracMin(a, b) == IF FracLeq(a, b) THEN a ELSE b

FracMax(a, b) == IF FracLeq(a, b) THEN b ELSE a

FracMul(a, b) == Frac(a.n * b.n, a.d * b.d)

FracAdd(a, b) == Frac(a.n * b.d + b.n * a.d, a.d * b.d)

FracEq(a, b) == a.n * b.d = b.n * a.d

\* RagConfig.min_confidence_threshold, MIN_CONFIDENCE unset: 0.7
MinConfidenceThreshold == Frac(7, 10)

(***************************************************************************)
(* RagCore.domain_keywords, in the order of the dict ("general" holds no   *)
(* keyword and is skipped by detect_domain), and detect_domain.            *)
(***************************************************************************)
DomainKeywords == <<
    [ name |-> "finance",
      keywords |->
    <<"loan", "mortgage", "investment", "portfolio", "risk", "compliance",
       "financial", "banking", "credit", "debt", "fico", "basel", "securities",
       "fund", "trading">> ],
    [ name |-> "legal",
      keywords |->
    <<"contract", "agreement", "liability", "clause", "jurisdiction", "lawsuit",
       "legal", "court", "attorney", "law", "litigation", "statute", "regulation",
       "breach", "defendant">> ],
    [ name |-> "medical",
      keywords |->
    <<"patient", "diagnosis", "treatment", "medication", "symptoms", "medical",
       "health", "doctor", "hospital", "clinical", "therapy", "prescription",
       "vital", "cardiac", "ecg", "oxygen">> ],
    [ name |-> "technical",
      keywords |->
    <<"API", "configuration", "deployment", "architecture", "protocol", "system",
       "software", "code", "programming", "technical", "server", "database",
       "network", "framework", "algorithm", ".net", "dotnet", "csharp", "async",
       "await", "task", "dependency", "injection", "minimal", "controllers",
       "middleware", "hosting", "services", "entity", "azure", "functions",
       "durable", "orchestrator", "activity", "checkpointing", "retry", "workflow",
       "cosmos", "storage", "servicebus", "eventhub", "cognitive", "kubernetes",
       "docker", "container", "microservices", "terraform", "yaml", "pipeline",
       "ci/cd", "devops", "infrastructure", "provisioning", "automation", "bicep",
       "arm", "cloudformation", "ansible", "helm", "kubectl", "deployment",
       "scaling", "microservice", "distributed", "event-driven", "saga", "cqrs",
       "event-sourcing", "domain-driven", "observability", "monitoring", "logging",
       "tracing", "metrics", "telemetry", "security", "authentication">> ],
    [ name |-> "education",
      keywords |->
    <<"student", "course", "curriculum", "academic", "education", "learning",
       "teaching", "university", "school", "grade", "assessment", "instruction",
       "pedagogy", "enrollment", "degree">> ] >>

\* sum(1 for keyword in keywords if keyword in text_lower)
KeywordMatches(keywords, text_lower) ==
    Cardinality({x \in 1..Len(keywords) : Contains(text_lower, keywords[x])})

\* the score detect_domain gives a domain with keyword_matches matches
DomainScore(keywords, keyword_matches, word_count) ==
    IF Len(keywords) > 0 /\ keyword_matches > 0
    THEN LET base_score ==
                 FracMin(Frac(1, 1),
                         FracMul(Frac(keyword_matches, 1),
                                 Frac(10, Max(100, 3 * Len(keywords)))))
             density_boost ==
                 FracMin(Frac(2, 1),
                         FracMul(Frac(keyword_matches, 1),
                                 Frac(100, Max(100, word_count))))
         IN  FracMul(base_score, FracAdd(Frac(1, 1), FracMul(density_boost, Frac(2, 10))))
    ELSE Frac(0, 1)

\* max(domain_scores.items(), key=lambda x: x[1]): the first entry of the largest score
FirstMaxIndex(scores) ==
    CHOOSE x \in 1..Len(scores) :
        /\ \A y \in 1..Len(scores) : FracLeq(scores[y], scores[x])
        /\ \A y \in 1..(x - 1) : ~FracLeq(scores[x], scores[y])

\* faulty variant: the arg-max is accepted from min_confidence_threshold on only
DetectDomainFullThreshold(text) ==
    LET text_lower == Lower(text)
        word_count == WordCount(text)
        domain_scores ==
            [x \in 1..Len(DomainKeywords) |->
                DomainScore(DomainKeywords[x].keywords,
                            KeywordMatches(DomainKeywords[x].keywords, text_lower),
                            word_count)]
        best == FirstMaxIndex(domain_scores)
    IN  IF FracLeq(MinConfidenceThreshold, domain_scores[best])
        THEN [domain |-> DomainKeywords[best].name, confidence |-> domain_scores[best]]
        ELSE [domain |-> "general", confidence |-> Frac(1, 1)]

\* detect_domain(text): (domain, confidence)
DetectDomain(text) ==
    LET text_lower == Lower(text)
        word_count == WordCount(text)
        domain_scores ==
            [x \in 1..Len(DomainKeywords) |->
                DomainScore(DomainKeywords[x].keywords,
                            KeywordMatches(DomainKeywords[x].keywords, text_lower),
                            word_count)]
        best == FirstMaxIndex(domain_scores)
        threshold == FracMax(Frac(1, 10), FracMul(MinConfidenceThreshold, Frac(3, 10)))
    IN  IF FracLeq(threshold, domain_scores[best])
        THEN [domain |-> DomainKeywords[best].name, confidence |-> domain_scores[best]]
        ELSE [domain |-> "general", confidence |-> Frac(1, 1)]

(***************************************************************************)
(* The model-availability cache and model resolution.                      *)
(* _available_models is None or a list; only membership is ever asked of   *)
(* the list, so it is kept as the set of its names.                        *)
(***************************************************************************)
NoneModels == [none |-> TRUE, names |-> {}]

ListOfModels(names) == [none |-> FALSE, names |-> names]

\* what GET /api/tags can answer: a 200 with a model list, another status, an exception
ProbeOutcomes ==
    [kind : {"ok"}, names : SUBSET ModelNames]
        \cup {[kind |-> "status", names |-> {}], [kind |-> "exception", names |-> {}]}

\* faulty variant: a failed probe leaves the cache unset, None
ProbedModelsNoneOnFailure(outcome) ==
    IF outcome.kind = "ok" THEN ListOfModels(outcome.names) ELSE NoneModels

\* the value _check_model_availability assigns to _available_models
ProbedModels(outcome) ==
    IF outcome.kind = "ok" THEN ListOfModels(outcome.names) ELSE ListOfModels({})

\* "if self._available_models is None: self._check_model_availability()": the
\* answers the probe made there can get; no probe, "kept", for a list
ProbesAfterNoneCheck(cache) ==
    IF cache.none THEN ProbeOutcomes ELSE {[kind |-> "kept", names |-> {}]}

\* the cache after it
CacheAfterNoneCheck(cache, outcome) ==
    IF outcome.kind = "kept" THEN cache ELSE ProbedModels(outcome)

\* the fallbacks list of _get_available_model
Fallbacks(c) == <<c.ollama_model, Llama70b, Llama8b, Mixtral, CodeLlama, Phi35>>

\* for fallback in fallbacks: if fallback in available_models: return fallback
RECURSIVE WalkFallbacks(_, _, _)
WalkFallbacks(fallbacks, available, preferred) ==
    IF Len(fallbacks) = 0 THEN preferred
    ELSE IF Head(fallbacks) \in available THEN Head(fallbacks)
         ELSE WalkFallbacks(Tail(fallbacks), available, preferred)

GetAvailableModelSkipsDefault(c, cache, preferred) ==
    LET available == IF cache.none THEN {} ELSE cache.names
    IN  IF preferred \in available THEN preferred
        ELSE WalkFallbacks(Tail(Fallbacks(c)), available, preferred)

GetAvailableModelIgnoresCache(c, cache, preferred) ==
    LET available == IF cache.none THEN {} ELSE cache.names
    IN  IF preferred \in available THEN preferred
        ELSE Head(Fallbacks(c))

\* _get_available_model(preferred_model), given the cache it reads
GetAvailableModel(c, cache, preferred) ==
    LET available == IF cache.none THEN {} ELSE cache.names
    IN  IF preferred \in available THEN preferred
        ELSE WalkFallbacks(Fallbacks(c), available, preferred)

CodeKeywords ==
    <<"code", "programming", "function", "class", "method", "api", "algorithm", "debug">>

PreferredForTaskDomainFirst(c, task_type, domain, query) ==
    IF task_type = "technical" \/ domain = "technical" THEN c.technical_model
    ELSE IF task_type = "code_generation" THEN c.code_generation_model
    ELSE IF task_type = "code_explanation" THEN c.code_explanation_model
    ELSE LET lowered == Lower(query)
         IN  IF \E x \in 1..Len(CodeKeywords) : Contains(lowered, CodeKeywords[x])
             THEN c.technical_model
             ELSE c.general_chat_model

PreferredForTaskCaseSensitive(c, task_type, domain, query) ==
    IF task_type = "code_generation" THEN c.code_generation_model
    ELSE IF task_type = "code_explanation" THEN c.code_explanation_model
    ELSE IF task_type = "technical" \/ domain = "technical" THEN c.technical_model
    ELSE IF \E x \in 1..Len(CodeKeywords) : Contains(query, CodeKeywords[x])
         THEN c.technical_model
    ELSE c.general_chat_model

\* select_model_for_task: the configured model it hands to _get_available_model
PreferredForTask(c, task_type, domain, query) ==
    IF task_type = "code_generation" THEN c.code_generation_model
    ELSE IF task_type = "code_explanation" THEN c.code_explanation_model
    ELSE IF task_type = "technical" \/ domain = "technical" THEN c.technical_model
    ELSE LET lowered == Lower(query)
         IN  IF \E x \in 1..Len(CodeKeywords) : Contains(lowered, CodeKeywords[x])
             THEN c.technical_model
             ELSE c.general_chat_model

TaskTypes == {"general", "code_generation", "code_explanation", "technical", "summary"}

DomainNames == {"finance", "legal", "medical", "technical", "education", "general"}

RouterQueries ==
    { "", "What are the DR phases?", "Debug it", "an API", "CLASSIC cars", "decode",
      "cod e", "my Methodology", "ALGORITHM", "hello" }

\* RagCore.__init__ has run: the cache holds what its probe gave
RouterInit ==
    /\ cfg \in Configs
    /\ \E outcome \in ProbeOutcomes :
          /\ available_models = ProbedModels(outcome)
          /\ probe_answer = outcome.kind
    /\ sel_pc = "idle"
    /\ sel_task = "general"
    /\ sel_domain = "general"
    /\ sel_query = ""
    /\ sel_preferred = ""
    /\ sel_result = ""

RouterIdle ==
    /\ cfg = DefaultConfig
    /\ available_models = ListOfModels({})
    /\ probe_answer = "ok"
    /\ sel_pc = "idle"
    /\ sel_task = "general"
    /\ sel_domain = "general"
    /\ sel_query = ""
    /\ sel_preferred = ""
    /\ sel_result = ""

\* _check_model_availability(), the explicit refresh, called between two selections
CheckModelAvailability ==
    /\ sel_pc = "idle"
    /\ \E outcome \in ProbeOutcomes :
          /\ available_models' = ProbedModels(outcome)
          /\ probe_answer' = outcome.kind
    /\ UNCHANGED <<cfg, sel_pc, sel_task, sel_domain, sel_query, sel_preferred, sel_result>>
    /\ UNCHANGED notRouterVars

\* _get_available_model(preferred_model): probes first if the cache is None
GetAvailableModelCall ==
    /\ sel_pc = "idle"
    /\ \E preferred \in ModelNames, outcome \in ProbesAfterNoneCheck(available_models) :
          LET cache == CacheAfterNoneCheck(available_models, outcome)
          IN  /\ available_models' = cache
              /\ probe_answer' = IF outcome.kind = "kept" THEN probe_answer ELSE outcome.kind
              /\ sel_preferred' = preferred
              /\ sel_result' = GetAvailableModel(cfg, cache, preferred)
    /\ sel_pc' = "resolved"
    /\ UNCHANGED <<cfg, sel_task, sel_domain, sel_query>>
    /\ UNCHANGED notRouterVars

\* select_model_for_task(task_type, domain, query)
SelectModelForTask ==
    /\ sel_pc = "idle"
    /\ \E task_type \in TaskTypes, domain \in DomainNames, query \in RouterQueries,
          outcome \in ProbesAfterNoneCheck(available_models) :
          LET preferred == PreferredForTask(cfg, task_type, domain, query)
              cache == CacheAfterNoneCheck(available_models, outcome)
          IN  /\ available_models' = cache
              /\ probe_answer' = IF outcome.kind = "kept" THEN probe_answer ELSE outcome.kind
              /\ sel_task' = task_type
              /\ sel_domain' = domain
              /\ sel_query' = query
              /\ sel_preferred' = preferred
              /\ sel_result' = GetAvailableModel(cfg, cache, preferred)
    /\ sel_pc' = "selected"
    /\ UNCHANGED cfg
    /\ UNCHANGED notRouterVars

\* the caller has taken the returned name: the next call can be made
SelectionReturned ==
    /\ sel_pc \in {"resolved", "selected"}
    /\ sel_pc' = "idle"
    /\ sel_task' = "general"
    /\ sel_domain' = "general"
    /\ sel_query' = ""
    /\ sel_preferred' = ""
    /\ sel_result' = ""
    /\ UNCHANGED <<cfg, available_models, probe_answer>>
    /\ UNCHANGED notRouterVars

(***************************************************************************)
(* Python str.strip() and str(int).                                        *)
(***************************************************************************)
RECURSIVE LStrip(_)
LStrip(s) ==
    IF Len(s) > 0 /\ Chr(s, 1) \in Whitespace THEN LStrip(SubSeq(s, 2, Len(s))) ELSE s

RECURSIVE RStrip(_)
RStrip(s) ==
    IF Len(s) > 0 /\ Chr(s, Len(s)) \in Whitespace
    THEN RStrip(SubSeq(s, 1, Len(s) - 1))
    ELSE s

Strip(s) == RStrip(LStrip(s))

DigitChars == "0123456789"

RECURSIVE IntToStr(_)
IntToStr(n) ==
    IF n < 10 THEN Chr(DigitChars, n + 1)
    ELSE IntToStr(n \div 10) \o Chr(DigitChars, (n % 10) + 1)

(***************************************************************************)
(* The vector store and ingestion.  A point is [id, doc_id, chunk, text];  *)
(* upsert replaces the point of the same id.                               *)
(***************************************************************************)
\* uuid5(NAMESPACE_URL, f"{doc_id}-{i}").int % 2**31, kept as the name that is
\* hashed: two names are taken to hash to two ids
PointId(doc_id, i) == doc_id \o "-" \o IntToStr(i)

\* chunk_text as ingest_text calls it: max_tokens=220, overlap_tokens=40
IngestMaxTokens == 220

IngestOverlapTokens == 40

\* the while loop of chunk_text from window start i on
RECURSIVE ChunkLoop(_, _, _, _)
ChunkLoop(words, i, max_tokens, overlap_tokens) ==
    LET n == Len(words)
        j == ChunkWindowEnd(i, max_tokens, n)
    IN  IF i < n
        THEN <<Join(SubSeq(words, i + 1, j), " ")>>
                \o (IF j = n THEN <<>>
                    ELSE ChunkLoop(words, ChunkNextStart(j, overlap_tokens),
                                   max_tokens, overlap_tokens))
        ELSE <<>>

\* chunk_text(text, max_tokens, overlap_tokens) where it returns
ChunkTextOf(text, max_tokens, overlap_tokens) ==
    LET words == Split(text)
    IN  IF Len(words) = 0 THEN <<>> ELSE ChunkLoop(words, 0, max_tokens, overlap_tokens)

\* the points _upsert_passages builds for doc_id from passages
PassagePoints(doc_id, passages) ==
    { [id |-> PointId(doc_id, i), doc_id |-> doc_id, chunk |-> i, text |-> passages[i]] :
        i \in 1..Len(passages) }

\* qc.upsert(collection, points): a point of the same id is replaced
Upserted(points, new) ==
    {p \in points : \A q \in new : q.id # p.id} \cup new

\* the DOCS of _seed_once, each cut to its first sentence
SeedDocs ==
    << [doc_id |-> "dr_runbook.md",
        text |-> "The DR process includes three phases: Preparation, Failover, and Validation."],
       [doc_id |-> "backup_policy.md",
        text |-> "Daily incremental backups at 01:00 UTC, weekly full backups on Sunday 02:00 UTC."],
       [doc_id |-> "biryani.txt",
        text |-> "Add basmati rice, marinate chicken with yogurt and spices, cook on low heat."] >>

\* the collection after __init__ on a fresh store: _seed_once has upserted DOCS
SeedPoints ==
    UNION { PassagePoints(SeedDocs[x].doc_id,
                          ChunkTextOf(SeedDocs[x].text, IngestMaxTokens, IngestOverlapTokens)) :
            x \in 1..Len(SeedDocs) }

IngestDocIds == {"biryani.txt"}

IngestTexts == {"", "Backups are tested every  quarter.\n"}

\* ingest_plain_chunks: the documents and passage lists it is called with
PlainDocIds == {"biryani.txt", "notes.txt"}

PlainPassages == {<<"Soak the rice.", "Fry the onions.">>, <<"Serve hot.">>}

NoPassages == [given |-> FALSE, passages |-> <<>>]

StoreInit ==
    /\ store_exists = TRUE
    /\ store_points = SeedPoints

IngestInit ==
    /\ ing_pc = "idle"
    /\ ing_doc = ""
    /\ ing_text = ""
    /\ ing_result = [ok |-> TRUE, chunks |-> 0]
    /\ ing_before = {}
    /\ ing_passages = NoPassages

\* ingest_text(doc_id, text) is called
IngestTextCall ==
    /\ ing_pc = "idle"
    /\ req_pc = "idle"
    /\ \E doc_id \in IngestDocIds, text \in IngestTexts :
          /\ ing_doc' = doc_id
          /\ ing_text' = text
    /\ ing_before' = store_points
    /\ ing_pc' = "list"
    /\ UNCHANGED <<ing_result, ing_passages, storeVars>>
    /\ UNCHANGED notIngestVars

\* ingest_plain_chunks(doc_id, passages) is called
IngestPlainChunksCall ==
    /\ ing_pc = "idle"
    /\ req_pc = "idle"
    /\ \E doc_id \in PlainDocIds, passages \in PlainPassages :
          /\ ing_doc' = doc_id
          /\ ing_passages' = [given |-> TRUE, passages |-> passages]
    /\ ing_before' = store_points
    /\ ing_pc' = "list"
    /\ UNCHANGED <<ing_text, ing_result, storeVars>>
    /\ UNCHANGED notIngestVars

\* _ensure_collection: names = get_collections(), [] if it raises;
\* then "if self.cfg.collection not in names"
EnsureListCollections ==
    /\ ing_pc = "list"
    /\ req_pc = "idle"
    /\ \E listed \in BOOLEAN :
          LET names == IF listed /\ store_exists THEN {"collection"} ELSE {}
          IN  ing_pc' = IF "collection" \notin names THEN "create" ELSE "upsert"
    /\ UNCHANGED <<ing_doc, ing_text, ing_result, ing_before, ing_passages, storeVars>>
    /\ UNCHANGED notIngestVars

\* _ensure_collection: create_collection raises when the collection exists
EnsureCreateCollection ==
    /\ ing_pc = "create"
    /\ req_pc = "idle"
    /\ IF store_exists
       THEN /\ ing_pc' = "recreate"
            /\ UNCHANGED storeVars
       ELSE /\ ing_pc' = "upsert"
            /\ store_exists' = TRUE
            /\ store_points' = {}
    /\ UNCHANGED <<ing_doc, ing_text, ing_result, ing_before, ing_passages>>
    /\ UNCHANGED notIngestVars

\* _ensure_collection: recreate_collection deletes the collection and creates it
EnsureRecreateCollection ==
    /\ ing_pc = "recreate"
    /\ req_pc = "idle"
    /\ \E ok \in BOOLEAN :
          IF ok
          THEN /\ store_exists' = TRUE
               /\ store_points' = {}
               /\ ing_pc' = "upsert"
               /\ UNCHANGED ing_result
          ELSE /\ ing_pc' = "done"
               /\ ing_result' = [ok |-> FALSE, chunks |-> 0]
               /\ UNCHANGED storeVars
    /\ UNCHANGED <<ing_doc, ing_text, ing_before, ing_passages>>
    /\ UNCHANGED notIngestVars

\* chunk_text (ingest_text only), _upsert_passages (encode, then one upsert
\* call), return len(chunks)
IngestUpsert ==
    /\ ing_pc = "upsert"
    /\ req_pc = "idle"
    /\ \E ok \in BOOLEAN :
          LET chunks == IF ing_passages.given
                        THEN ing_passages.passages
                        ELSE ChunkTextOf(ing_text, IngestMaxTokens, IngestOverlapTokens)
          IN  IF ok
              THEN /\ store_points' = Upserted(store_points, PassagePoints(ing_doc, chunks))
                   /\ ing_result' = [ok |-> TRUE, chunks |-> Len(chunks)]
              ELSE /\ ing_result' = [ok |-> FALSE, chunks |-> 0]
                   /\ UNCHANGED store_points
    /\ ing_pc' = "done"
    /\ UNCHANGED <<ing_doc, ing_text, ing_before, ing_passages, store_exists>>
    /\ UNCHANGED notIngestVars

\* the caller has the chunk count (or the exception): the next call can be made
IngestReturned ==
    /\ ing_pc = "done"
    /\ req_pc = "idle"
    /\ ing_pc' = "idle"
    /\ ing_doc' = ""
    /\ ing_text' = ""
    /\ ing_result' = [ok |-> TRUE, chunks |-> 0]
    /\ ing_before' = {}
    /\ ing_passages' = NoPassages
    /\ UNCHANGED storeVars
    /\ UNCHANGED notIngestVars

(***************************************************************************)
(* The ask request: search, rerank, build_prompt, generation, validation.  *)
(* A passage is [id, text, doc_id, score].                                 *)
(***************************************************************************)
RECURSIVE Perms(_)
Perms(S) ==
    IF S = {} THEN {<<>>}
    ELSE UNION { { <<x>> \o rest : rest \in Perms(S \ {x}) } : x \in S }

\* what the store answers to a query with limit k: at most k points, nearest first;
\* which points are nearest is the embedding model's matter
HitLists(points, k) ==
    LET n == Min(k, Cardinality(points))
    IN  UNION { Perms(T) : T \in {U \in SUBSET points : Cardinality(U) = n} }

\* search(query, k): k = k or cfg.topk
SearchLimit(config, k) == IF k = 0 THEN config.topk ELSE k

\* what the store answers to limit: for a limit below zero the repository fixes
\* nothing, the store may answer any list of its points (or raise)
StoreAnswers(points, limit) ==
    IF limit >= 0 THEN HitLists(points, limit)
    ELSE UNION { HitLists(points, n) : n \in 0..Cardinality(points) }

\* seq[:k] of Python: the first k for k >= 0, all but the last -k for k < 0
SliceTo(seq, k) ==
    IF k >= 0 THEN SubSeq(seq, 1, Min(k, Len(seq)))
    ELSE SubSeq(seq, 1, Max(0, Len(seq) + k))

\* the list comprehension of search over the points returned
PassagesOf(pts) ==
    [x \in 1..Len(pts) |->
        [id |-> pts[x].id, text |-> pts[x].text, doc_id |-> pts[x].doc_id, score |-> 0]]

ScoreValues == {1, 2}

\* sorted(range(len(passages)), key=lambda i: scores[i], reverse=True): a stable
\* sort, so of two equal scores the earlier index comes first
RECURSIVE SortedOrder(_, _)
SortedOrder(scores, remaining) ==
    IF remaining = {} THEN <<>>
    ELSE LET best == CHOOSE i \in remaining :
                        \A j \in remaining :
                            \/ scores[i] > scores[j]
                            \/ scores[i] = scores[j] /\ i <= j
         IN  <<best>> \o SortedOrder(scores, remaining \ {best})

\* sorted(...)[::-1] in place of reverse=True: of two equal scores the later
\* index comes first
RECURSIVE ReversedAscendingOrder(_, _)
ReversedAscendingOrder(scores, remaining) ==
    IF remaining = {} THEN <<>>
    ELSE LET best == CHOOSE i \in remaining :
                        \A j \in remaining :
                            \/ scores[i] > scores[j]
                            \/ scores[i] = scores[j] /\ i >= j
         IN  <<best>> \o ReversedAscendingOrder(scores, remaining \ {best})

\* faulty variant: descending, but equal scores come out in reversed input order
RerankTiesReversed(passages, scores) ==
    IF Len(passages) = 0
    THEN [ranked |-> <<>>, scores |-> <<>>]
    ELSE LET order == ReversedAscendingOrder(scores, 1..Len(passages))
         IN  [ranked |-> [x \in 1..Len(order) |-> passages[order[x]]],
              scores |-> [x \in 1..Len(order) |-> scores[order[x]]]]

\* faulty variant: passages scored below the best one are dropped
RerankKeepsBestOnly(passages, scores) ==
    IF Len(passages) = 0
    THEN [ranked |-> <<>>, scores |-> <<>>]
    ELSE LET order == SortedOrder(scores, 1..Len(passages))
             kept == SelectSeq(order, LAMBDA i : scores[i] = scores[order[1]])
         IN  [ranked |-> [x \in 1..Len(kept) |-> passages[kept[x]]],
              scores |-> [x \in 1..Len(kept) |-> scores[kept[x]]]]

\* faulty variant: the order is ascending
RerankAscending(passages, scores) ==
    IF Len(passages) = 0
    THEN [ranked |-> <<>>, scores |-> <<>>]
    ELSE LET order == SortedOrder(scores, 1..Len(passages))
             n == Len(order)
         IN  [ranked |-> [x \in 1..n |-> passages[order[n + 1 - x]]],
              scores |-> [x \in 1..n |-> scores[order[n + 1 - x]]]]

\* rerank(query, passages) given the scores the cross-encoder predicts
Rerank(passages, scores) ==
    IF Len(passages) = 0
    THEN [ranked |-> <<>>, scores |-> <<>>]
    ELSE LET order == SortedOrder(scores, 1..Len(passages))
         IN  [ranked |-> [x \in 1..Len(order) |-> passages[order[x]]],
              scores |-> [x \in 1..Len(order) |-> scores[order[x]]]]

SystemText ==
    "Answer ONLY using [CONTEXT]. If not present, reply exactly: not found.\n"
    \o "Every sentence MUST end with [n] citations from [CONTEXT]. Do not invent sources. Be concise."

\* the f-string of one numbered passage
NumberedLine(i, p) ==
    "[" \o IntToStr(i) \o "] " \o Strip(p.text) \o " (file: " \o p.doc_id
        \o ", chunk #" \o p.id \o ")"

\* build_prompt(query, ranked, k): k = k or cfg.context_k, then ranked[:k] is
\* numbered from 1; the text lines the f-string interpolates begin
\* at column 0, so textwrap.dedent finds no common margin; it only empties the
\* lines that hold nothing but blanks
BuildPrompt(config, query, ranked, k) ==
    LET top == SliceTo(ranked, IF k = 0 THEN config.context_k ELSE k)
        numbered == [i \in 1..Len(top) |-> NumberedLine(i, top[i])]
        ctx == Join(numbered, "\n\n")
        ind == "        "
        line(t) == IF Strip(t) = "" THEN "" ELSE ind \o t
    IN  [prompt |-> "\n" \o ind \o "[SYSTEM]\n" \o ind \o SystemText \o "\n\n"
                    \o ind \o "[CONTEXT]\n" \o line(ctx) \o "\n\n"
                    \o ind \o "[QUESTION]\n" \o line(query) \o "\n\n"
                    \o ind \o "[INSTRUCTIONS]\n"
                    \o ind \o "- Each sentence ends with citation(s) like [1] or [1][2]\n"
                    \o ind \o "- If unsupported, reply: not found\n",
         cmap |-> [i \in 1..Len(top) |->
                     [index |-> i, doc_id |-> top[i].doc_id, chunk_id |-> top[i].id,
                      score |-> top[i].score]]]

\* the fields each handler adds to route, answer and contextMap
Metadata(kind, model, domain, task_type) ==
    IF kind = "ask_local" THEN <<>>
    ELSE IF kind = "ask_enhanced"
    THEN [model_used |-> model, task_type |-> task_type]
    ELSE [model_used |-> model, detected_domain |-> domain.domain,
          domain_confidence |-> domain.confidence, task_type |-> task_type]

\* faulty variant: the citations are validated against the context map's length
AnswerOrAbstainAgainstContextMap(c, text, cmap, meta) ==
    LET ans == Strip(text)
    IN  IF ans # "" /\ Lower(ans) # "not found" /\ HasValidCitations(ans, Len(cmap))
        THEN [route |-> "local", answer |-> ans, contextMap |-> cmap] @@ meta
        ELSE [route |-> "abstain", answer |-> "not found", contextMap |-> cmap] @@ meta

\* the tail of ask_local, ask_local_with_model_selection and ask_enhanced:
\* ans = <generated text>.strip(), then the answer or the abstention
AnswerOrAbstain(c, text, cmap, meta) ==
    LET ans == Strip(text)
    IN  IF ans # "" /\ Lower(ans) # "not found" /\ HasValidCitations(ans, c.context_k)
        THEN [route |-> "local", answer |-> ans, contextMap |-> cmap] @@ meta
        ELSE [route |-> "abstain", answer |-> "not found", contextMap |-> cmap] @@ meta

AskQueries == {"", "What are the DR phases?", "debug the backup code"}

AskTaskTypes == {"general", "technical"}

AskPreferredModels == {"", Mixtral}

\* the texts the generation backend can answer with
GeneratedTexts ==
    { "", " Not Found\n", "Three phases [1].", " Three phases [1]. \n",
      "Phases [1][4].", "See [5]." }

\* the caches RagCore.__init__ can leave: what its probe listed, or [] if it failed
StartupCaches == {ListOfModels({}), ListOfModels({Llama8b, CodeLlama})}

NoCall == ""

\* one call to a collaborator: which, for which model, and whether it succeeded
CallTo(name, model, ok) == [call |-> name, model |-> model, ok |-> ok]

ReqInit ==
    /\ req_pc = "idle"
    /\ req_kind = ""
    /\ req_query = ""
    /\ req_k = 0
    /\ req_task = ""
    /\ req_domain = [domain |-> "", confidence |-> Frac(0, 1)]
    /\ req_model = ""
    /\ req_hits = <<>>
    /\ req_ranked = <<>>
    /\ req_scores = <<>>
    /\ req_prompt = ""
    /\ req_cmap = <<>>
    /\ req_calls = <<>>
    /\ req_text = ""
    /\ req_result = [route |-> ""]

\* what a handler's first lines leave before search is called
ReqStarted(kind, query, task_type, domain, model) ==
    /\ req_pc' = "query_points"
    /\ req_kind' = kind
    /\ req_query' = query
    /\ req_k' = cfg.topk
    /\ req_task' = task_type
    /\ req_domain' = domain
    /\ req_model' = model
    /\ UNCHANGED <<req_hits, req_ranked, req_scores, req_prompt, req_cmap, req_calls,
                   req_text, req_result>>
    /\ UNCHANGED notReqVars

\* ask_local(query): generation is asked of cfg.ollama_model
AskLocalCall ==
    /\ req_pc = "idle"
    /\ ing_pc = "idle"
    /\ \E query \in AskQueries :
          ReqStarted("ask_local", query, "", [domain |-> "", confidence |-> Frac(0, 1)],
                     cfg.ollama_model)

\* ask_local_with_model_selection(query, task_type), as ask_get and ask_post call
\* it: detect_domain, then select_model_for_task
AskWithModelSelectionCall ==
    /\ req_pc = "idle"
    /\ ing_pc = "idle"
    /\ \E query \in AskQueries, task_type \in AskTaskTypes :
          LET detected == DetectDomain(query)
              preferred == PreferredForTask(cfg, task_type, detected.domain, query)
              selected == GetAvailableModel(cfg, available_models, preferred)
          IN  ReqStarted("ask_local_with_model_selection", query, task_type, detected,
                         selected)

\* ask_enhanced(payload): the pipeline with preferred_model if one is given,
\* ask_local_with_model_selection otherwise
AskEnhancedCall ==
    /\ req_pc = "idle"
    /\ ing_pc = "idle"
    /\ \E query \in AskQueries, task_type \in AskTaskTypes,
          preferred_model \in AskPreferredModels :
          IF preferred_model # ""
          THEN ReqStarted("ask_enhanced", query, task_type,
                          [domain |-> "", confidence |-> Frac(0, 1)], preferred_model)
          ELSE LET detected == DetectDomain(query)
                   preferred == PreferredForTask(cfg, task_type, detected.domain, query)
                   selected == GetAvailableModel(cfg, available_models, preferred)
               IN  ReqStarted("ask_local_with_model_selection", query, task_type,
                              detected, selected)

\* search: the query is embedded, then query_points is tried
SearchQueryPoints ==
    /\ req_pc = "query_points"
    /\ \E ok \in BOOLEAN, pts \in StoreAnswers(store_points, SearchLimit(cfg, req_k)) :
          /\ IF ok
             THEN /\ req_hits' = PassagesOf(pts)
                  /\ req_pc' = "rerank"
             ELSE /\ req_pc' = "search"
                  /\ UNCHANGED req_hits
          /\ req_calls' = req_calls \o <<CallTo("encode", NoCall, TRUE),
                                         CallTo("query_points", NoCall, ok)>>
    /\ UNCHANGED <<req_kind, req_query, req_k, req_task, req_domain, req_model, req_ranked,
                   req_scores, req_prompt, req_cmap, req_text, req_result>>
    /\ UNCHANGED notReqVars

\* search: query_points raised, the older qc.search is called; if it raises too,
\* the exception leaves the handler
SearchOlderClient ==
    /\ req_pc = "search"
    /\ \E ok \in BOOLEAN, pts \in StoreAnswers(store_points, SearchLimit(cfg, req_k)) :
          /\ IF ok
             THEN /\ req_hits' = PassagesOf(pts)
                  /\ req_pc' = "rerank"
                  /\ UNCHANGED req_result
             ELSE /\ req_pc' = "error"
                  /\ req_result' = [route |-> "error"]
                  /\ UNCHANGED req_hits
          /\ req_calls' = Append(req_calls, CallTo("search", NoCall, ok))
    /\ UNCHANGED <<req_kind, req_query, req_k, req_task, req_domain, req_model, req_ranked,
                   req_scores, req_prompt, req_cmap, req_text>>
    /\ UNCHANGED notReqVars

\* faulty variant: generation is asked for as soon as rerank has returned
RerankHitsThenGenerate ==
    /\ req_pc = "rerank"
    /\ \E scores \in [1..Len(req_hits) -> ScoreValues] :
          LET r == Rerank(req_hits, scores)
          IN  /\ req_ranked' = r.ranked
              /\ req_scores' = r.scores
    /\ req_calls' = IF Len(req_hits) = 0 THEN req_calls
                    ELSE Append(req_calls, CallTo("predict", NoCall, TRUE))
    /\ req_pc' = IF req_kind = "rag_search" THEN "top" ELSE "generate"
    /\ UNCHANGED <<req_kind, req_query, req_k, req_task, req_domain, req_model, req_hits,
                   req_prompt, req_cmap, req_text, req_result>>
    /\ UNCHANGED notReqVars

\* rerank(query, hits): reranker.predict is called unless hits is empty
RerankHits ==
    /\ req_pc = "rerank"
    /\ \E scores \in [1..Len(req_hits) -> ScoreValues] :
          LET r == Rerank(req_hits, scores)
          IN  /\ req_ranked' = r.ranked
              /\ req_scores' = r.scores
    /\ req_calls' = IF Len(req_hits) = 0 THEN req_calls
                    ELSE Append(req_calls, CallTo("predict", NoCall, TRUE))
    /\ req_pc' = IF req_kind = "rag_search" THEN "top" ELSE "prompt"
    /\ UNCHANGED <<req_kind, req_query, req_k, req_task, req_domain, req_model, req_hits,
                   req_prompt, req_cmap, req_text, req_result>>
    /\ UNCHANGED notReqVars

\* build_prompt(query, ranked, k=cfg.context_k)
BuildPromptStep ==
    /\ req_pc = "prompt"
    /\ LET b == BuildPrompt(cfg, req_query, req_ranked, cfg.context_k)
       IN  /\ req_prompt' = b.prompt
           /\ req_cmap' = b.cmap
    /\ req_pc' = "generate"
    /\ UNCHANGED <<req_kind, req_query, req_k, req_task, req_domain, req_model, req_hits,
                   req_ranked, req_scores, req_calls, req_text, req_result>>
    /\ UNCHANGED notReqVars

\* the POST to /api/generate: its json carries the model and the prompt
PrimaryCall(c, model, prompt, ok) ==
    [call |-> "generate", model |-> model, prompt |-> prompt, ok |-> ok]

\* faulty variant: the chat call goes to the configured default model
FallbackCallDefaultModel(c, model, prompt, ok) ==
    [call |-> "chat", model |-> c.ollama_model, prompt |-> prompt, ok |-> ok]

\* the POST to /api/chat: the same model, the prompt as the one user message
FallbackCall(c, model, prompt, ok) ==
    [call |-> "chat", model |-> model, prompt |-> prompt, ok |-> ok]

\* _ollama_generate / _ollama_generate_with_model: POST /api/generate; a 200
\* returns its "response" (or ""), another status or an exception goes on to chat
OllamaGenerate ==
    /\ req_pc = "generate"
    /\ \E outcome \in {"ok", "status", "exception"}, text \in GeneratedTexts :
          /\ IF outcome = "ok"
             THEN /\ req_text' = text
                  /\ req_pc' = "validate"
             ELSE /\ req_pc' = "chat"
                  /\ UNCHANGED req_text
          /\ req_calls' = Append(req_calls,
                                 PrimaryCall(cfg, req_model, req_prompt, outcome = "ok"))
    /\ UNCHANGED <<req_kind, req_query, req_k, req_task, req_domain, req_model, req_hits,
                   req_ranked, req_scores, req_prompt, req_cmap, req_result>>
    /\ UNCHANGED notReqVars

\* the fallback POST /api/chat: its message content (or ""), and "" if it fails
OllamaChat ==
    /\ req_pc = "chat"
    /\ \E ok \in BOOLEAN, text \in GeneratedTexts :
          /\ req_text' = IF ok THEN text ELSE ""
          /\ req_calls' = Append(req_calls, FallbackCall(cfg, req_model, req_prompt, ok))
    /\ req_pc' = "validate"
    /\ UNCHANGED <<req_kind, req_query, req_k, req_task, req_domain, req_model, req_hits,
                   req_ranked, req_scores, req_prompt, req_cmap, req_result>>
    /\ UNCHANGED notReqVars

\* the strip, the three conditions, and the dict that is returned
ValidateAnswer ==
    /\ req_pc = "validate"
    /\ req_result' = AnswerOrAbstain(cfg, req_text, req_cmap,
                                     Metadata(req_kind, req_model, req_domain, req_task))
    /\ req_pc' = "done"
    /\ UNCHANGED <<req_kind, req_query, req_k, req_task, req_domain, req_model, req_hits,
                   req_ranked, req_scores, req_prompt, req_cmap, req_calls, req_text>>
    /\ UNCHANGED notReqVars

\* the caller has the result (or the exception): the next request can start
RequestReturned ==
    /\ req_pc \in {"done", "error"}
    /\ req_pc' = "idle"
    /\ req_kind' = ""
    /\ req_query' = ""
    /\ req_k' = 0
    /\ req_task' = ""
    /\ req_domain' = [domain |-> "", confidence |-> Frac(0, 1)]
    /\ req_model' = ""
    /\ req_hits' = <<>>
    /\ req_ranked' = <<>>
    /\ req_scores' = <<>>
    /\ req_prompt' = ""
    /\ req_cmap' = <<>>
    /\ req_calls' = <<>>
    /\ req_text' = ""
    /\ req_result' = [route |-> ""]
    /\ UNCHANGED notReqVars

\* the q and k GET /rag/search is called with: the route declares q: str and
\* k: int = 8 and nothing more
SearchQueries == {"", "backup"}

SearchKs == {-1, 0, 1, 8}

\* rag_search(q, k): core.search(q, k=k) comes first
RagSearchCall ==
    /\ req_pc = "idle"
    /\ ing_pc = "idle"
    /\ \E q \in SearchQueries, k \in SearchKs :
          /\ req_query' = q
          /\ req_k' = k
    /\ req_pc' = "query_points"
    /\ req_kind' = "rag_search"
    /\ UNCHANGED <<req_task, req_domain, req_model, req_hits, req_ranked, req_scores,
                   req_prompt, req_cmap, req_calls, req_text, req_result>>
    /\ UNCHANGED notReqVars

\* rag_search: the first k pairs of zip(ranked, scores), and the dict returned
RagSearchTop ==
    /\ req_pc = "top"
    /\ LET pairs == [x \in 1..Len(req_ranked) |->
                        [doc_id |-> req_ranked[x].doc_id, chunk |-> req_ranked[x].id,
                         score |-> req_scores[x]]]
       IN  req_result' = [route |-> "rag_search", query |-> req_query,
                          top |-> SliceTo(pairs, req_k)]
    /\ req_pc' = "done"
    /\ UNCHANGED <<req_kind, req_query, req_k, req_task, req_domain, req_model, req_hits,
                   req_ranked, req_scores, req_prompt, req_cmap, req_calls, req_text>>
    /\ UNCHANGED notReqVars

RerankIdle ==
    /\ rr_pc = "return"
    /\ rr_passages = <<>>
    /\ rr_scorer = <<>>
    /\ rr_called = FALSE
    /\ rr_ranked = <<>>
    /\ rr_scores = <<>>

DomainIdle ==
    /\ dd_pc = "return"
    /\ dd_text = ""
    /\ dd_result = [domain |-> "general", confidence |-> Frac(1, 1)]

PromptIdle ==
    /\ bp_pc = "return"
    /\ bp_query = ""
    /\ bp_ranked = <<>>
    /\ bp_k = 0
    /\ bp_result = [prompt |-> "", cmap |-> <<>>]

RaceIdle ==
    /\ rc_pc = "idle"
    /\ rc_preferred = ""
    /\ rc_local = {}
    /\ rc_pre = ListOfModels({})
    /\ rc_post = ListOfModels({})
    /\ rc_refresh = "idle"
    /\ rc_new = ListOfModels({})
    /\ rc_result = ""

\* __init__ is past _ensure_collection_with_retry: the first attempt succeeded
StartupIdle ==
    /\ su_pc = "returned"
    /\ su_retries = 0
    /\ su_delay = 0
    /\ su_attempts = 1
    /\ su_failed = 0
    /\ su_waited = 0

CrawlJobIds == {"docs", "faq"}

MaxCrawls == 3

\* no entry under a job_id, and a start_crawl call not made yet
NoJob == [present |-> FALSE, status |-> "", created |-> 0]

NoTask == [pc |-> "unused", job_id |-> "", created |-> 0]

\* crawl_jobs: Dict[str, Dict] = {}
CrawlIdle ==
    /\ crawl_jobs = [j \in CrawlJobIds |-> NoJob]
    /\ crawl_tasks = [t \in 1..MaxCrawls |-> NoTask]
    /\ crawl_count = 0

PipelineIdle ==
    StoreInit /\ IngestInit /\ ReqInit /\ RerankIdle /\ DomainIdle /\ PromptIdle /\ RaceIdle
    /\ StartupIdle /\ CrawlIdle

\* RagCore.__init__ has run: configuration read, store seeded, models probed
RagCoreInit ==
    /\ cfg \in Configs
    /\ available_models \in StartupCaches
    /\ probe_answer = "ok"
    /\ sel_pc = "idle"
    /\ sel_task = "general"
    /\ sel_domain = "general"
    /\ sel_query = ""
    /\ sel_preferred = ""
    /\ sel_result = ""
    /\ PipelineIdle

(***************************************************************************)
(* The words of a text, stated by position: the maximal runs of            *)
(* non-whitespace characters.                                              *)
(***************************************************************************)
WordSpans(s) ==
    { p \in (1..Len(s)) \X (1..Len(s)) :
        /\ p[1] <= p[2]
        /\ \A q \in p[1]..p[2] : Chr(s, q) \notin Whitespace
        /\ (p[1] = 1 \/ Chr(s, p[1] - 1) \in Whitespace)
        /\ (p[2] = Len(s) \/ Chr(s, p[2] + 1) \in Whitespace) }

\* words is the sequence of the words of s, in the order of the text
IsWordSequenceOf(words, s) ==
    /\ Len(words) = Cardinality(WordSpans(s))
    /\ \A p \in WordSpans(s) :
          LET x == Cardinality({q \in WordSpans(s) : q[1] < p[1]}) + 1
          IN  words[x] = SubSeq(s, p[1], p[2])

(***************************************************************************)
(* C9: chunk_text terminates for every text, max_tokens >= 1 and           *)
(* overlap_tokens >= 0, overlap_tokens >= max_tokens included: every pass  *)
(* of the loop moves the window start forward by at least one word, so it  *)
(* never appends more chunks than the text has words.                      *)
(***************************************************************************)
C9_ChunkTerminates ==
    /\ Len(ch_chunks) <= Len(ch_words)
    /\ \A x \in 1..(Len(ch_windows) - 1) :
          ch_windows[x + 1][1] >= ch_windows[x][1] + 1

(***************************************************************************)
(* C10: for 0 <= overlap_tokens < max_tokens the chunks returned are       *)
(* windows of the word sequence of the text, in its order, the first       *)
(* starting at the first word, the last ending at the last word, without   *)
(* a gap between two consecutive ones, so that every word position is      *)
(* covered; a text without a word gives no chunk, a text with a word gives *)
(* at least one.                                                           *)
(***************************************************************************)
C10_ChunksCoverWords ==
    ch_overlap < ch_max =>
        /\ Len(ch_chunks) <= Cardinality(WordSpans(ch_text))
        /\ ch_pc = "return" =>
            LET n == Cardinality(WordSpans(ch_text))
                k == Len(ch_chunks)
            IN  /\ IsWordSequenceOf(ch_words, ch_text)
                /\ Len(ch_windows) = k
                /\ (n = 0) => (k = 0)
                /\ (n >= 1) => /\ k >= 1
                               /\ ch_windows[1][1] = 0
                               /\ ch_windows[k][2] = n
                /\ \A x \in 1..k :
                      /\ ch_windows[x][1] < ch_windows[x][2]
                      /\ ch_chunks[x] =
                            Join(SubSeq(ch_words, ch_windows[x][1] + 1,
                                        ch_windows[x][2]), " ")
                /\ \A x \in 1..(k - 1) :
                      /\ ch_windows[x + 1][1] > ch_windows[x][1]
                      /\ ch_windows[x + 1][1] <= ch_windows[x][2]
                      /\ ch_windows[x + 1][2] >= ch_windows[x][2]
                /\ \A w \in 1..n :
                      \E x \in 1..k :
                          ch_windows[x][1] < w /\ w <= ch_windows[x][2]

C10_Witness ==
    /\ ch_pc = "return"
    /\ ch_overlap >= 1
    /\ ch_overlap < ch_max
    /\ Len(ch_chunks) >= 2
    /\ ch_windows[Len(ch_windows)][2] - ch_windows[Len(ch_windows)][1] < ch_max
    /\ Len(ch_text) > Len(Join(ch_words, " "))

(***************************************************************************)
(* Model resolution, stated by position in a fallback order.               *)
(***************************************************************************)
\* the fallback order as documented: most capable general, balanced general,
\* strong instruction, code specialist, smallest and fastest
DocumentedOrder == <<Llama70b, Llama8b, Mixtral, CodeLlama, Phi35>>

\* the documented order behind the configured default model
DefaultFirstOrder(c) == <<c.ollama_model>> \o DocumentedOrder

IsFirstAvailable(order, available, m) ==
    \E x \in 1..Len(order) :
        /\ order[x] = m
        /\ m \in available
        /\ \A y \in 1..(x - 1) : order[y] \notin available

SomeAvailable(order, available) == \E x \in 1..Len(order) : order[x] \in available

(***************************************************************************)
(* C6 as claimed: when the preferred model of a task is not available,     *)
(* select_model_for_task returns the first available entry of the          *)
(* documented fallback order and never the unavailable preferred model.    *)
(***************************************************************************)
C6_FallbackDocumentedOrder ==
    (sel_pc = "selected" /\ sel_preferred \notin available_models.names) =>
        /\ IsFirstAvailable(DocumentedOrder, available_models.names, sel_result)
        /\ sel_result # sel_preferred

(***************************************************************************)
(* C6 as amended: when the preferred model of a task is not available,     *)
(* select_model_for_task returns the first available entry of the order    *)
(* configured default model, then the documented order; it returns the     *)
(* unavailable preferred model only when no entry of that order is         *)
(* available.                                                              *)
(***************************************************************************)
C6_FallbackDefaultFirst ==
    (sel_pc = "selected" /\ sel_preferred \notin available_models.names) =>
        IF SomeAvailable(DefaultFirstOrder(cfg), available_models.names)
        THEN /\ IsFirstAvailable(DefaultFirstOrder(cfg), available_models.names, sel_result)
             /\ sel_result # sel_preferred
        ELSE sel_result = sel_preferred

C6_Witness ==
    /\ sel_pc = "selected"
    /\ sel_task = "code_generation"
    /\ sel_preferred \notin available_models.names
    /\ sel_result \in available_models.names
    /\ sel_result \notin {cfg.ollama_model, Llama70b}
    /\ cfg.ollama_model \notin available_models.names

(***************************************************************************)
(* C7 as claimed: resolution returns the preferred model if it is          *)
(* available, otherwise the first available entry of the documented order  *)
(* llama3.1:70b, llama3.1:8b, mixtral, codellama:13b, phi3.5, and the      *)
(* preferred name unchanged if none of them is available.                  *)
(***************************************************************************)
C7_ResolutionDocumentedOrder ==
    sel_pc \in {"resolved", "selected"} =>
        IF sel_preferred \in available_models.names THEN sel_result = sel_preferred
        ELSE IF SomeAvailable(DocumentedOrder, available_models.names)
             THEN IsFirstAvailable(DocumentedOrder, available_models.names, sel_result)
             ELSE sel_result = sel_preferred

(***************************************************************************)
(* C7 as amended: resolution returns the preferred model if it is          *)
(* available, otherwise the first available entry of the order configured  *)
(* default model (ollama_model), llama3.1:70b, llama3.1:8b, mixtral,       *)
(* codellama:13b, phi3.5, and the preferred name unchanged if none of      *)
(* them is available; it always returns a name.                            *)
(***************************************************************************)
C7_ResolutionDefaultFirst ==
    sel_pc \in {"resolved", "selected"} =>
        /\ sel_result \in ModelNames
        /\ IF sel_preferred \in available_models.names THEN sel_result = sel_preferred
           ELSE IF SomeAvailable(DefaultFirstOrder(cfg), available_models.names)
                THEN IsFirstAvailable(DefaultFirstOrder(cfg), available_models.names,
                                      sel_result)
                ELSE sel_result = sel_preferred

C7_Witness ==
    /\ sel_pc = "resolved"
    /\ available_models.names # {}
    /\ sel_preferred \notin available_models.names
    /\ sel_result = sel_preferred

(***************************************************************************)
(* The code keywords of a query, stated character by character.            *)
(***************************************************************************)
CodeKeywordSet ==
    {"code", "programming", "function", "class", "method", "api", "algorithm", "debug"}

HasCodeKeywordAnyCase(query) ==
    \E kw \in CodeKeywordSet :
        \E pos \in 1..(Len(query) - Len(kw) + 1) :
            \A x \in 1..Len(kw) : LowerChar(Chr(query, pos + x - 1)) = Chr(kw, x)

(***************************************************************************)
(* C8: select_model_for_task picks the configured model by the first rule  *)
(* that matches: task code_generation, else task code_explanation, else    *)
(* task technical or domain technical, else a query holding one of the     *)
(* code keywords in any letter case, else the general chat model; a later  *)
(* rule never overrides an earlier one.                                    *)
(***************************************************************************)
C8_SelectionPrecedence ==
    sel_pc = "selected" =>
        LET codeTask == sel_task \in {"code_generation", "code_explanation"}
            technical == sel_task = "technical" \/ sel_domain = "technical"
        IN  /\ sel_task = "code_generation" =>
                sel_preferred = cfg.code_generation_model
            /\ sel_task = "code_explanation" =>
                sel_preferred = cfg.code_explanation_model
            /\ (~codeTask /\ technical) => sel_preferred = cfg.technical_model
            /\ (~codeTask /\ ~technical /\ HasCodeKeywordAnyCase(sel_query)) =>
                sel_preferred = cfg.technical_model
            /\ (~codeTask /\ ~technical /\ ~HasCodeKeywordAnyCase(sel_query)) =>
                sel_preferred = cfg.general_chat_model

C8_Witness ==
    /\ sel_pc = "selected"
    /\ cfg = CustomConfig
    /\ sel_task = "code_explanation"
    /\ sel_domain = "technical"
    /\ HasCodeKeywordAnyCase(sel_query)
    /\ sel_preferred = Mixtral

(***************************************************************************)
(* Results of ask requests.                                                *)
(***************************************************************************)
\* the numbers of the bracket citations of a text
CitedNumbers(s) == { TokenNumber(s, p[1], p[2]) : p \in CitationTokens(s) }

\* a result has been returned to the caller of an ask handler
Returned == req_pc = "done"

\* some call to the generation backend is in the log
GenerationInvoked == \E x \in 1..Len(req_calls) : req_calls[x].call \in {"generate", "chat"}

\* the generate call and the chat call of the request have both failed
BothGenerationCallsFailed ==
    /\ \E x \in 1..Len(req_calls) : req_calls[x].call = "generate" /\ ~req_calls[x].ok
    /\ \E x \in 1..Len(req_calls) : req_calls[x].call = "chat" /\ ~req_calls[x].ok

\* the three conditions of an accepted answer, on the generated text
Accepted(text, k) ==
    /\ Strip(text) # ""
    /\ Lower(Strip(text)) # "not found"
    /\ CitationsAllInRange(text, k)

\* the fields of a result beside route, answer and contextMap, per handler
MetadataFields(kind) ==
    IF kind = "ask_local" THEN {}
    ELSE IF kind = "ask_enhanced" THEN {"model_used", "task_type"}
    ELSE {"model_used", "detected_domain", "domain_confidence", "task_type"}

\* the result is a structured one, of its handler's fields, on the request's
\* context map and model
WellShaped(result) ==
    /\ DOMAIN result = {"route", "answer", "contextMap"} \cup MetadataFields(req_kind)
    /\ result.contextMap = req_cmap
    /\ "model_used" \in DOMAIN result => result.model_used = req_model
    /\ "task_type" \in DOMAIN result => result.task_type = req_task

(***************************************************************************)
(* C1 as claimed: when ask_local or ask_local_with_model_selection returns *)
(* route "local", every bracket citation [n] of the returned answer has    *)
(* 1 <= n <= len(contextMap) of the same result, also when fewer than      *)
(* context_k passages were retrieved.                                      *)
(***************************************************************************)
C1_CitationsWithinContextMap ==
    (/\ Returned
     /\ req_kind \in {"ask_local", "ask_local_with_model_selection"}
     /\ req_result.route = "local")
        => \A n \in CitedNumbers(req_result.answer) :
              1 <= n /\ n <= Len(req_result.contextMap)

(***************************************************************************)
(* C2 as claimed: when search has returned zero passages, the generation   *)
(* backend is invoked at no point of the request (neither generate nor     *)
(* chat), and the result is route "abstain" with answer "not found".       *)
(***************************************************************************)
C2_NoHitsNoGeneration ==
    (req_pc \in {"rerank", "prompt", "generate", "chat", "validate", "done"}
        /\ req_hits = <<>>)
        => /\ ~GenerationInvoked
           /\ Returned => (req_result.route = "abstain" /\ req_result.answer = "not found")

(***************************************************************************)
(* C3 as claimed: the result is route "local" with the generated text as   *)
(* answer if and only if the stripped text is non-empty, is not            *)
(* "not found" in any letter case and has valid citations for context_k;   *)
(* otherwise it is route "abstain" with answer "not found"; both carry the *)
(* same contextMap and metadata fields.                                    *)
(***************************************************************************)
C3_AnswerIsGeneratedText ==
    Returned =>
        /\ WellShaped(req_result)
        /\ IF Accepted(req_text, cfg.context_k)
           THEN req_result.route = "local" /\ req_result.answer = req_text
           ELSE req_result.route = "abstain" /\ req_result.answer = "not found"

(***************************************************************************)
(* C3 as amended: the result is route "local" with the stripped generated  *)
(* text as answer if and only if the stripped text is non-empty, is not    *)
(* "not found" in any letter case and has valid citations for context_k;   *)
(* otherwise it is route "abstain" with answer "not found"; both carry the *)
(* same contextMap and metadata fields, and a request whose text fails the *)
(* citation contract still returns a result.                               *)
(***************************************************************************)
C3_AnswerIsStrippedText ==
    /\ Returned =>
        /\ WellShaped(req_result)
        /\ IF Accepted(req_text, cfg.context_k)
           THEN req_result.route = "local" /\ req_result.answer = Strip(req_text)
           ELSE req_result.route = "abstain" /\ req_result.answer = "not found"
    /\ req_pc = "error" => ~GenerationInvoked

C3_Witness ==
    /\ Returned
    /\ req_kind = "ask_local_with_model_selection"
    /\ req_result.route = "local"
    /\ req_text # Strip(req_text)
    /\ Len(req_cmap) >= 2

(***************************************************************************)
(* C5 as claimed: when both the generate call and the chat call of a       *)
(* request have failed, the request ends with an error and returns no      *)
(* result, neither route "abstain" nor any other.                          *)
(***************************************************************************)
C5_GenerationFailureIsError ==
    BothGenerationCallsFailed => ~Returned

(***************************************************************************)
(* Results of ingest_text calls.                                           *)
(***************************************************************************)
\* the points a call ingest_text(doc_id, text) writes
CallPoints(doc_id, text) ==
    PassagePoints(doc_id, ChunkTextOf(text, IngestMaxTokens, IngestOverlapTokens))

\* (doc_id, text) has been ingested: points holds the points of that call
AlreadyIngested(points, doc_id, text) ==
    /\ CallPoints(doc_id, text) # {}
    /\ CallPoints(doc_id, text) \subseteq points

(***************************************************************************)
(* C11 as claimed: ingesting a (doc_id, text) that has already been        *)
(* ingested leaves the store as it was after the first ingestion: the same *)
(* ids, the same text and payload under each id, no additional point.      *)
(***************************************************************************)
C11_ReingestLeavesStore ==
    (/\ ing_pc = "done"
     /\ ing_result.ok
     /\ AlreadyIngested(ing_before, ing_doc, ing_text))
        => store_points = ing_before

(***************************************************************************)
(* C12 as claimed: a call of ingest_text is all-or-nothing: either every   *)
(* chunk of the call is stored and the chunk count is returned, or the     *)
(* call fails, none of its chunks is stored and the store holds what it    *)
(* held when the call was made.                                            *)
(***************************************************************************)
C12_IngestAllOrNothing ==
    ing_pc = "done" =>
        IF ing_result.ok
        THEN /\ CallPoints(ing_doc, ing_text) \subseteq store_points
             /\ ing_result.chunks = Cardinality(CallPoints(ing_doc, ing_text))
        ELSE store_points = ing_before

(***************************************************************************)
(* C13 as claimed: _ensure_collection never deletes or recreates a         *)
(* collection that existed: every passage stored when the call was made is *)
(* still stored when _ensure_collection has run, also when the collection  *)
(* listing failed.                                                         *)
(***************************************************************************)
C13_EnsureKeepsPassages ==
    ing_pc \in {"create", "recreate", "upsert"} => ing_before \subseteq store_points

(***************************************************************************)
(* rerank called on its own, on every list of up to MaxPassages passages   *)
(* of a pool (a passage may occur twice) and every scoring of the pool.    *)
(***************************************************************************)
RerankPool == { PassagesOf(<<p>>)[1] : p \in SeedPoints }

RerankScoreValues == {-1, 0, 2}

SeqsUpTo(S, n) == UNION { [1..m -> S] : m \in 0..n }

RerankInit ==
    /\ rr_pc = "call"
    /\ rr_passages \in SeqsUpTo(RerankPool, MaxPassages)
    /\ rr_scorer \in [RerankPool -> RerankScoreValues]
    /\ rr_called = FALSE
    /\ rr_ranked = <<>>
    /\ rr_scores = <<>>

\* rerank(query, passages): "if not passages: return [], []", else predict and sort
RerankCall ==
    /\ rr_pc = "call"
    /\ LET predicted == [x \in 1..Len(rr_passages) |-> rr_scorer[rr_passages[x]]]
           r == Rerank(rr_passages, predicted)
       IN  /\ rr_ranked' = r.ranked
           /\ rr_scores' = r.scores
    /\ rr_called' = (Len(rr_passages) # 0)
    /\ rr_pc' = "return"
    /\ UNCHANGED <<rr_passages, rr_scorer>>
    /\ UNCHANGED notRerankVars

(***************************************************************************)
(* C14: rerank never filters: the passage list returned is a permutation   *)
(* of the input list (same passages, same multiplicity, same length), the  *)
(* score list has the same length and its i-th score is the scorer's score *)
(* of the i-th passage returned; an empty input returns ([], []) and the   *)
(* scoring model is not invoked.                                           *)
(***************************************************************************)
C14_RerankPermutes ==
    rr_pc = "return" =>
        LET n == Len(rr_passages)
        IN  /\ Len(rr_ranked) = n
            /\ Len(rr_scores) = n
            /\ \A p \in RerankPool :
                  Cardinality({x \in 1..n : rr_ranked[x] = p})
                      = Cardinality({x \in 1..n : rr_passages[x] = p})
            /\ \A x \in 1..n : rr_ranked[x] \in RerankPool
            /\ \A x \in 1..n : rr_scores[x] = rr_scorer[rr_ranked[x]]
            /\ (n = 0) => (rr_ranked = <<>> /\ rr_scores = <<>> /\ ~rr_called)

C14_Witness ==
    /\ rr_pc = "return"
    /\ rr_called
    /\ Len(rr_passages) = 3
    /\ rr_passages[1] = rr_passages[3]
    /\ rr_passages[1] # rr_passages[2]
    /\ rr_ranked # rr_passages

(***************************************************************************)
(* C15: the score list rerank returns is non-increasing: for positions     *)
(* i < j the i-th score is at least the j-th.                              *)
(***************************************************************************)
C15_ScoresNonIncreasing ==
    rr_pc = "return" =>
        \A i, j \in 1..Len(rr_scores) : i < j => rr_scores[i] >= rr_scores[j]

C15_Witness ==
    /\ rr_pc = "return"
    /\ Len(rr_scores) = 3
    /\ rr_scores[1] > rr_scores[2]
    /\ rr_scores[2] > rr_scores[3]
    /\ rr_scorer[rr_passages[1]] < rr_scorer[rr_passages[2]]

(***************************************************************************)
(* detect_domain called on its own, on every text of up to MaxDomainWords  *)
(* words of a pool and on some longer texts.                               *)
(***************************************************************************)
DomainWordPool == {"loan", "RISK", "debt", "Court", "law", "x"}

\* 120 words that are no keyword of any domain
Filler ==
    LET ten == "x x x x x x x x x x "
        forty == ten \o ten \o ten \o ten
    IN  forty \o forty \o forty

DomainSamples ==
    { "   ",
      "loan debt fund risk fico basel credit banking",
      "Loan mortgage investment portfolio risk compliance financial banking credit debt",
      "docker code server yaml",
      "docker code server",
      "the patient and the student",
      "API docker code server",
      Filler \o "loan debt" }

DomainTexts ==
    { Join(ws, " ") : ws \in SeqsUpTo(DomainWordPool, MaxDomainWords) } \cup DomainSamples

DomainInit ==
    /\ dd_pc = "call"
    /\ dd_text \in DomainTexts
    /\ dd_result = [domain |-> "general", confidence |-> Frac(1, 1)]

\* detect_domain(text)
DetectDomainCall ==
    /\ dd_pc = "call"
    /\ dd_result' = DetectDomain(dd_text)
    /\ dd_pc' = "return"
    /\ UNCHANGED dd_text
    /\ UNCHANGED notDomainVars

\* the score of every domain of the keyword table for a text
ScoresOf(text) ==
    [x \in 1..Len(DomainKeywords) |->
        DomainScore(DomainKeywords[x].keywords,
                    KeywordMatches(DomainKeywords[x].keywords, Lower(text)),
                    WordCount(text))]

\* the largest of them
TopScore(scores) ==
    scores[CHOOSE x \in 1..Len(scores) : \A y \in 1..Len(scores) : FracLeq(scores[y], scores[x])]

\* max(0.1, min_confidence_threshold * 0.3) with min_confidence_threshold = 0.7
AcceptanceThreshold == Frac(21, 100)

(***************************************************************************)
(* C16 as claimed: the confidence detect_domain returns lies in [0, 1],    *)
(* for a domain of the keyword table as for ("general", 1.0).              *)
(***************************************************************************)
C16_ConfidenceInUnitInterval ==
    dd_pc = "return" =>
        /\ FracLeq(Frac(0, 1), dd_result.confidence)
        /\ FracLeq(dd_result.confidence, Frac(1, 1))

(***************************************************************************)
(* C17: detect_domain returns an arg-max domain of the keyword table with  *)
(* its score if and only if that score is at least                         *)
(* max(0.1, min_confidence_threshold * 0.3); otherwise, also when no       *)
(* keyword matches or the text is empty, it returns ("general", 1.0).      *)
(***************************************************************************)
C17_ArgMaxAboveThreshold ==
    dd_pc = "return" =>
        LET scores == ScoresOf(dd_text)
            top == TopScore(scores)
        IN  IF FracLeq(AcceptanceThreshold, top)
            THEN /\ dd_result.confidence = top
                 /\ \E x \in 1..Len(DomainKeywords) :
                       /\ DomainKeywords[x].name = dd_result.domain
                       /\ scores[x] = top
            ELSE dd_result = [domain |-> "general", confidence |-> Frac(1, 1)]

C17_Witness ==
    /\ dd_pc = "return"
    /\ dd_result.domain = "finance"
    /\ FracLeq(AcceptanceThreshold, dd_result.confidence)
    /\ ~FracLeq(MinConfidenceThreshold, dd_result.confidence)
    /\ WordCount(dd_text) > 100

(***************************************************************************)
(* C18 as claimed: a search or ask call with an empty query or a negative  *)
(* k issues no call to the embedding provider, the vector store, the       *)
(* reranker or the generation backend, and ends rejected as InvalidInput.  *)
(***************************************************************************)
InvalidInput == req_pc # "idle" /\ (req_query = "" \/ req_k < 0)

C18_InvalidInputRejected ==
    InvalidInput =>
        /\ req_calls = <<>>
        /\ req_pc \in {"done", "error"} => req_result = [route |-> "InvalidInput"]

(***************************************************************************)
(* build_prompt called on its own: on the rank orders of up to three       *)
(* passages of the seed documents and every k of PromptKs.                 *)
(***************************************************************************)
MaxPromptK == 4

PromptKs == -1..MaxPromptK

PromptQueries == {"", "What are the DR phases?"}

PromptRanked ==
    { PassagesOf(pts) : pts \in UNION { HitLists(SeedPoints, n) : n \in 0..MaxPassages } }

PromptInit ==
    /\ bp_pc = "call"
    /\ bp_query \in PromptQueries
    /\ bp_ranked \in PromptRanked
    /\ bp_k \in PromptKs
    /\ bp_result = [prompt |-> "", cmap |-> <<>>]

\* build_prompt(query, ranked, k)
BuildPromptCall ==
    /\ bp_pc = "call"
    /\ bp_result' = BuildPrompt(cfg, bp_query, bp_ranked, bp_k)
    /\ bp_pc' = "return"
    /\ UNCHANGED <<bp_query, bp_ranked, bp_k>>
    /\ UNCHANGED notPromptVars

\* the first position of sub in s from position from on, 0 if there is none
Find(s, sub, from) ==
    LET at == { x \in from..(Len(s) - Len(sub) + 1) : SubSeq(s, x, x + Len(sub) - 1) = sub }
    IN  IF at = {} THEN 0 ELSE CHOOSE x \in at : \A y \in at : x <= y

\* what a prompt holds between its [CONTEXT] line and its [QUESTION] line
ContextSection(prompt) ==
    LET head == "[CONTEXT]\n"
        a == Find(prompt, head, 1)
        b == Find(prompt, "\n\n        [QUESTION]\n", a + Len(head))
    IN  SubSeq(prompt, a + Len(head), b - 1)

\* the context section that offers exactly the passages ps under the numbers 1..Len(ps)
NumberedSection(ps) ==
    IF Len(ps) = 0 THEN ""
    ELSE "        " \o Join([i \in 1..Len(ps) |-> NumberedLine(i, ps[i])], "\n\n")

(***************************************************************************)
(* C19 as claimed: build_prompt(query, ranked, k) returns a context map    *)
(* with the indices 1, 2, ..., K in this order for K = min(k, len(ranked)),*)
(* entry i carrying doc_id and chunk id of ranked[i-1], and the prompt     *)
(* numbers exactly these passages [1]..[K] in its context.                 *)
(***************************************************************************)
C19_ContextMapIsTopK ==
    bp_pc = "return" =>
        LET K == Max(0, Min(bp_k, Len(bp_ranked)))
            cmap == bp_result.cmap
        IN  /\ Len(cmap) = K
            /\ \A i \in 1..Len(cmap) :
                  /\ cmap[i].index = i
                  /\ cmap[i].doc_id = bp_ranked[i].doc_id
                  /\ cmap[i].chunk_id = bp_ranked[i].id
            /\ ContextSection(bp_result.prompt) = NumberedSection(SubSeq(bp_ranked, 1, K))

(***************************************************************************)
(* _get_available_model in one thread, _check_model_availability in        *)
(* another. The resolution reads self._available_models twice, for the     *)
(* None check and for its local available_models; the refresh builds its   *)
(* list from the answer and assigns it with one attribute assignment.      *)
(***************************************************************************)
RacePreferred == {Mixtral, CodeLlama}

RaceOutcomes ==
    { o \in ProbeOutcomes :
        o.names \in {{}, {Llama8b}, {Mixtral, Llama70b}, {Mixtral, CodeLlama}} }

\* faulty variant: the fallbacks are looked up in the cache as it is by then
ResolveRereadingCache(c, local, shared, preferred) ==
    IF preferred \in local THEN preferred
    ELSE WalkFallbacks(Fallbacks(c), IF shared.none THEN {} ELSE shared.names, preferred)

\* the lines after the snapshot: only the local available_models is looked at,
\* whatever self._available_models holds by then
ResolveOnSnapshot(c, local, shared, preferred) ==
    GetAvailableModel(c, ListOfModels(local), preferred)

\* _get_available_model(preferred_model) is called
ResolveStart ==
    /\ rc_pc = "idle"
    /\ \E preferred \in RacePreferred : rc_preferred' = preferred
    /\ rc_pre' = available_models
    /\ rc_post' = available_models
    /\ rc_pc' = "none_check"
    /\ UNCHANGED <<available_models, probe_answer, rc_local, rc_refresh, rc_new, rc_result>>
    /\ UNCHANGED notRaceVars

\* if self._available_models is None: self._check_model_availability()
ResolveNoneCheck ==
    /\ rc_pc = "none_check"
    /\ IF available_models.none
       THEN \E outcome \in RaceOutcomes :
               /\ available_models' = ProbedModels(outcome)
               /\ probe_answer' = outcome.kind
               /\ rc_post' = ProbedModels(outcome)
       ELSE UNCHANGED <<available_models, probe_answer, rc_post>>
    /\ rc_pc' = "snapshot"
    /\ UNCHANGED <<rc_preferred, rc_local, rc_pre, rc_refresh, rc_new, rc_result>>
    /\ UNCHANGED notRaceVars

\* available_models = self._available_models or []
ResolveSnapshot ==
    /\ rc_pc = "snapshot"
    /\ rc_local' = IF available_models.none THEN {} ELSE available_models.names
    /\ rc_pc' = "resolve"
    /\ UNCHANGED <<available_models, probe_answer, rc_preferred, rc_pre, rc_post,
                   rc_refresh, rc_new, rc_result>>
    /\ UNCHANGED notRaceVars

\* the preferred model, the fallbacks, the last resort
ResolveReturn ==
    /\ rc_pc = "resolve"
    /\ rc_result' = ResolveOnSnapshot(cfg, rc_local, available_models, rc_preferred)
    /\ rc_pc' = "done"
    /\ UNCHANGED <<available_models, probe_answer, rc_preferred, rc_local, rc_pre, rc_post,
                   rc_refresh, rc_new>>
    /\ UNCHANGED notRaceVars

\* the caller has the name; a refresh that has assigned is over as well
ResolveReturned ==
    /\ rc_pc = "done"
    /\ rc_pc' = "idle"
    /\ rc_preferred' = ""
    /\ rc_local' = {}
    /\ rc_pre' = ListOfModels({})
    /\ rc_post' = ListOfModels({})
    /\ rc_result' = ""
    /\ rc_refresh' = IF rc_refresh = "assigned" THEN "idle" ELSE rc_refresh
    /\ rc_new' = IF rc_refresh = "assigned" THEN ListOfModels({}) ELSE rc_new
    /\ UNCHANGED <<available_models, probe_answer>>
    /\ UNCHANGED notRaceVars

\* _check_model_availability in the other thread: GET /api/tags and the list
\* comprehension over its answer, or [] for another status or an exception
RefreshProbe ==
    /\ rc_refresh = "idle"
    /\ \E outcome \in RaceOutcomes :
          /\ rc_new' = ProbedModels(outcome)
          /\ probe_answer' = outcome.kind
    /\ rc_refresh' = "probed"
    /\ UNCHANGED <<available_models, rc_pc, rc_preferred, rc_local, rc_pre, rc_post,
                   rc_result>>
    /\ UNCHANGED notRaceVars

\* self._available_models = ...: the attribute is bound to the finished list
RefreshAssign ==
    /\ rc_refresh = "probed"
    /\ available_models' = rc_new
    /\ rc_post' = IF rc_pc = "idle" THEN rc_post ELSE rc_new
    /\ rc_refresh' = "assigned"
    /\ UNCHANGED <<probe_answer, rc_pc, rc_preferred, rc_local, rc_pre, rc_new, rc_result>>
    /\ UNCHANGED notRaceVars

(***************************************************************************)
(* C20: a resolution that runs while the cache is refreshed works on the   *)
(* complete list of before the refresh or the complete list of after it,   *)
(* and returns the model the resolution rule gives for one of the two.     *)
(***************************************************************************)
C20_ResolvesOnOneSnapshot ==
    /\ rc_pc \in {"resolve", "done"} => ListOfModels(rc_local) \in {rc_pre, rc_post}
    /\ rc_pc = "done" =>
          rc_result \in { GetAvailableModel(cfg, rc_pre, rc_preferred),
                          GetAvailableModel(cfg, rc_post, rc_preferred) }

\* the refresh assigned after the snapshot was taken, and the two lists resolve
\* the preferred model differently
C20_Witness ==
    /\ rc_pc = "done"
    /\ rc_refresh = "assigned"
    /\ ListOfModels(rc_local) = rc_pre
    /\ available_models = rc_post
    /\ GetAvailableModel(cfg, rc_pre, rc_preferred)
          # GetAvailableModel(cfg, rc_post, rc_preferred)
    /\ rc_result = GetAvailableModel(cfg, rc_pre, rc_preferred)

(***************************************************************************)
(* The stages of one ask request, by the position the request is at and by *)
(* the collaborator a call goes to.                                        *)
(***************************************************************************)
StageOfPc(pc) ==
    CASE pc \in {"query_points", "search"} -> 1
      [] pc = "rerank" -> 2
      [] pc = "prompt" -> 3
      [] pc \in {"generate", "chat"} -> 4
      [] pc = "validate" -> 5
      [] pc \in {"done", "error"} -> 6
      [] OTHER -> 0

StageOfCall(name) ==
    CASE name \in {"encode", "query_points", "search"} -> 1
      [] name = "predict" -> 2
      [] name \in {"generate", "chat"} -> 4

CalledNames == { req_calls[x].call : x \in 1..Len(req_calls) }

\* the request moves to the next stage, stays in its stage, or leaves with an exception
StageStep ==
    \/ req_pc' = req_pc
    \/ req_pc = "idle" /\ req_pc' = "query_points"
    \/ req_pc \in {"done", "error"} /\ req_pc' = "idle"
    \/ req_pc = "query_points" /\ req_pc' = "search"
    \/ req_pc = "generate" /\ req_pc' = "chat"
    \/ req_pc = "search" /\ req_pc' = "error"
    \/ req_pc # "idle" /\ StageOfPc(req_pc') = StageOfPc(req_pc) + 1

\* every call made so far belongs to a stage the request has reached, the calls
\* are in the order of their stages and none is made twice
CallsFollowStages ==
    /\ \A x \in 1..Len(req_calls) :
          /\ StageOfCall(req_calls[x].call) <= StageOfPc(req_pc)
          /\ \A y \in 1..(x - 1) :
                /\ req_calls[y].call # req_calls[x].call
                /\ StageOfCall(req_calls[y].call) <= StageOfCall(req_calls[x].call)
    /\ "predict" \in CalledNames =>
          /\ StageOfPc(req_pc) > 2
          /\ req_calls[Len(req_calls)].call # "predict" => StageOfPc(req_pc) > 3
    /\ StageOfPc(req_pc) \in 2..5 => req_calls[Len(req_calls)].ok \/ req_pc \in {"chat", "validate"}

\* what each stage has left when the next one runs
StagesComplete ==
    /\ StageOfPc(req_pc) \in 2..5 =>
          \E x \in 1..Len(req_calls) :
              req_calls[x].call \in {"query_points", "search"} /\ req_calls[x].ok
    /\ StageOfPc(req_pc) \in 1..2 => req_ranked = <<>> /\ req_prompt = ""
    /\ StageOfPc(req_pc) \in 3..5 =>
          /\ Len(req_ranked) = Len(req_hits)
          /\ (req_hits # <<>>) = ("predict" \in CalledNames)
    /\ StageOfPc(req_pc) = 3 => req_prompt = "" /\ CalledNames \cap {"generate", "chat"} = {}
    /\ StageOfPc(req_pc) \in 4..5 =>
          LET b == BuildPrompt(cfg, req_query, req_ranked, cfg.context_k)
          IN  req_prompt = b.prompt /\ req_cmap = b.cmap
    /\ req_pc = "generate" => CalledNames \cap {"generate", "chat"} = {}
    /\ req_pc \in {"chat", "validate"} =>
          /\ "generate" \in CalledNames
          /\ req_result = [route |-> ""]
    /\ req_pc = "done" /\ req_kind # "rag_search" =>
          /\ "generate" \in CalledNames
          /\ req_result # [route |-> ""]

(***************************************************************************)
(* C21: within one ask request the stages run in the order search, rerank, *)
(* prompt build, generate, validate: the reranker is called after search   *)
(* has returned, generation after the prompt has been built from the       *)
(* reranked passages, validation after generation has returned; no stage   *)
(* starts before the previous one is complete and none runs twice.         *)
(***************************************************************************)
C21_StagesInOrder ==
    [](CallsFollowStages /\ StagesComplete) /\ [][StageStep]_vars

C21_Witness ==
    /\ req_pc = "done"
    /\ req_kind = "ask_local_with_model_selection"
    /\ Len(req_calls) = 6
    /\ req_result.route = "local"

(***************************************************************************)
(* C22: in a generation step the chat call is made, for the same model and *)
(* the same prompt, whenever the generate call has failed, and at most     *)
(* once; when the generate call succeeds no chat call is made.             *)
(***************************************************************************)
CallsNamed(name) == { x \in 1..Len(req_calls) : req_calls[x].call = name }

C22_ChatFallbackOnce ==
    /\ Cardinality(CallsNamed("generate")) <= 1
    /\ Cardinality(CallsNamed("chat")) <= 1
    /\ \A x \in CallsNamed("generate") :
          /\ req_calls[x].prompt = req_prompt
          /\ req_calls[x].ok => CallsNamed("chat") = {}
          /\ (~req_calls[x].ok /\ req_pc \in {"validate", "done"}) => CallsNamed("chat") = {x + 1}
    /\ \A y \in CallsNamed("chat") :
          /\ y - 1 \in CallsNamed("generate")
          /\ ~req_calls[y - 1].ok
          /\ req_calls[y].model = req_calls[y - 1].model
          /\ req_calls[y].prompt = req_calls[y - 1].prompt

\* the generate call for a model that is not the default has failed, the chat
\* call has failed as well, and the request has given up
C22_Witness ==
    /\ req_pc = "done"
    /\ req_model # cfg.ollama_model
    /\ CallsNamed("chat") # {}
    /\ \A y \in CallsNamed("chat") : ~req_calls[y].ok
    /\ req_result.route = "abstain"

(***************************************************************************)
(* _ensure_collection_with_retry(dim) as __init__ calls it, against a      *)
(* store that may not be ready: an attempt is one call of                  *)
(* _ensure_collection, which raises when recreate_collection raises.       *)
(***************************************************************************)
MaxRetries == 3

RetryDelays == {1, 2}

\* the store a server can hold when the process starts
StartupStores ==
    { [exists |-> FALSE, points |-> {}], [exists |-> TRUE, points |-> {}],
      [exists |-> TRUE, points |-> SeedPoints] }

StartupInit ==
    /\ su_retries \in 0..MaxRetries
    /\ su_pc = IF su_retries = 0 THEN "final" ELSE "loop"
    /\ su_delay \in RetryDelays
    /\ su_attempts = 0
    /\ su_failed = 0
    /\ su_waited = 0
    /\ \E st \in StartupStores : store_exists = st.exists /\ store_points = st.points

\* faulty variant: after the last attempt has failed the function returns
FailedAttemptSwallowsLast(retries, attempts) ==
    IF attempts <= retries THEN "sleep" ELSE "returned"

\* where a raising attempt leaves the function: in the except clause of the loop
\* for the first qdrant_retries attempts, out of the function for the one after
FailedAttemptLeads(retries, attempts) ==
    IF attempts <= retries THEN "sleep" ELSE "raised"

\* one call of _ensure_collection(dim), in the loop or after it: the listing
\* (names = [] if it raises), create_collection, recreate_collection
EnsureAttempt ==
    /\ su_pc \in {"loop", "final"}
    /\ su_attempts' = su_attempts + 1
    /\ \E reachable \in BOOLEAN, listed \in BOOLEAN :
          IF ~reachable
          THEN /\ su_failed' = su_failed + 1
               /\ su_pc' = FailedAttemptLeads(su_retries, su_attempts + 1)
               /\ UNCHANGED storeVars
          ELSE /\ su_pc' = "returned"
               /\ su_failed' = su_failed
               /\ store_exists' = TRUE
               /\ store_points' = IF listed /\ store_exists THEN store_points ELSE {}
    /\ UNCHANGED <<su_retries, su_delay, su_waited>>
    /\ UNCHANGED notStartupVars

\* time.sleep(self.cfg.qdrant_retry_delay), then the next pass of the loop or,
\* after qdrant_retries passes, the final attempt
RetrySleep ==
    /\ su_pc = "sleep"
    /\ su_waited' = su_waited + su_delay
    /\ su_pc' = IF su_attempts < su_retries THEN "loop" ELSE "final"
    /\ UNCHANGED <<su_retries, su_delay, su_attempts, su_failed, storeVars>>
    /\ UNCHANGED notStartupVars

(***************************************************************************)
(* C23: the collection setup with retry makes at most qdrant_retries + 1   *)
(* attempts, returns at the first attempt that succeeds, has waited        *)
(* qdrant_retry_delay after every failed attempt of the loop, and ends:    *)
(* when every attempt has failed, by raising the error of the final one.   *)
(***************************************************************************)
RetryBounded ==
    /\ su_attempts <= su_retries + 1
    /\ su_failed <= su_attempts
    /\ su_pc = "returned" => su_failed = su_attempts - 1
    /\ su_pc = "raised" => su_failed = su_retries + 1 /\ su_attempts = su_retries + 1
    /\ su_pc \in {"loop", "final"} => su_failed = su_attempts
    /\ su_pc = "loop" => su_attempts < su_retries
    /\ su_pc = "final" => su_attempts = su_retries
    /\ su_waited = su_delay * (IF su_pc = "sleep" THEN su_failed - 1
                               ELSE Min(su_failed, su_retries))

C23_RetryBoundedAndEnds ==
    []RetryBounded /\ <>(su_pc \in {"returned", "raised"})

\* every attempt has failed and the last one raised, after all the waits
C23_Witness ==
    /\ su_pc = "raised"
    /\ su_retries = 2
    /\ su_attempts = 3
    /\ su_waited = 2 * su_delay

(***************************************************************************)
(* C24 as claimed: search issues query_points first and the older search   *)
(* call only if query_points failed, at most once; if both fail the error  *)
(* reaches the caller and no result stands in its place; every successful  *)
(* search returns at most k passages.                                      *)
(***************************************************************************)
SearchReturned == StageOfPc(req_pc) \in 2..5 \/ req_pc \in {"top", "done"}

C24_FallbackOnceAtMostK ==
    /\ Cardinality(CallsNamed("query_points")) <= 1
    /\ Cardinality(CallsNamed("search")) <= 1
    /\ \A x \in CallsNamed("query_points") :
          /\ req_calls[x].ok => CallsNamed("search") = {}
          /\ (~req_calls[x].ok /\ req_pc # "search") => CallsNamed("search") = {x + 1}
    /\ \A y \in CallsNamed("search") :
          /\ y - 1 \in CallsNamed("query_points") /\ ~req_calls[y - 1].ok
          /\ ~req_calls[y].ok => (req_pc = "error" /\ req_hits = <<>>
                                    /\ req_result = [route |-> "error"])
    /\ SearchReturned => Len(req_hits) <= req_k

(***************************************************************************)
(* C25: for 0 <= overlap_tokens < max_tokens every chunk but the last has  *)
(* exactly max_tokens words, every chunk after the first starts            *)
(* max_tokens - overlap_tokens words after the start of the one before,    *)
(* two consecutive chunks share exactly overlap_tokens words, and only the *)
(* last chunk may have fewer than max_tokens words.                        *)
(***************************************************************************)
\* the number of words of a text in a chunk
ChunkWords(chunk) == Cardinality(WordSpans(chunk))

\* the word positions of window x
WindowPositions(x) == (ch_windows[x][1] + 1)..ch_windows[x][2]

C25_WindowsSlideByStride ==
    (ch_pc = "return" /\ ch_overlap < ch_max) =>
        LET k == Len(ch_chunks)
        IN  /\ Len(ch_windows) = k
            /\ \A x \in 1..k :
                  /\ ChunkWords(ch_chunks[x]) = Cardinality(WindowPositions(x))
                  /\ ChunkWords(ch_chunks[x]) <= ch_max
                  /\ 1 <= ChunkWords(ch_chunks[x])
            /\ \A x \in 1..(k - 1) :
                  /\ ChunkWords(ch_chunks[x]) = ch_max
                  /\ ch_windows[x + 1][1] = ch_windows[x][1] + (ch_max - ch_overlap)
                  /\ Cardinality(WindowPositions(x) \cap WindowPositions(x + 1)) = ch_overlap

\* a full chunk, then a shorter last one that begins with its last word
C25_Witness ==
    /\ ch_pc = "return"
    /\ ch_max = 3
    /\ ch_overlap = 1
    /\ Len(ch_chunks) = 2
    /\ ChunkWords(ch_chunks[1]) = 3
    /\ ChunkWords(ch_chunks[2]) = 2

(***************************************************************************)
(* C26: rerank is a stable sort by descending score: the passages that     *)
(* receive one and the same score come out in the order in which they went *)
(* in.                                                                     *)
(***************************************************************************)
ScoredAs(passages, s) == SelectSeq(passages, LAMBDA p : rr_scorer[p] = s)

C26_TiesKeepInputOrder ==
    rr_pc = "return" =>
        \A s \in RerankScoreValues : ScoredAs(rr_ranked, s) = ScoredAs(rr_passages, s)

\* two different passages with one score behind a passage with a higher score
C26_Witness ==
    /\ rr_pc = "return"
    /\ Len(rr_passages) = 3
    /\ rr_passages[1] # rr_passages[2]
    /\ rr_scorer[rr_passages[1]] = rr_scorer[rr_passages[2]]
    /\ rr_scorer[rr_passages[3]] > rr_scorer[rr_passages[1]]
    /\ rr_ranked = <<rr_passages[3], rr_passages[1], rr_passages[2]>>

(***************************************************************************)
(* C27 as claimed: keyword matching is case-insensitive for every keyword  *)
(* of the table: whatever the letter case of the input and of the keyword  *)
(* as written in the table, the matches detect_domain counts for a domain  *)
(* are the keywords occurring in the text with letter case ignored, and    *)
(* the result is the one these counts give.                                *)
(***************************************************************************)
FoldedKeywords ==
    [x \in 1..Len(DomainKeywords) |->
        [y \in 1..Len(DomainKeywords[x].keywords) |-> Lower(DomainKeywords[x].keywords[y])]]

FoldedMatches(x, text) ==
    Cardinality({y \in 1..Len(FoldedKeywords[x]) : Contains(Lower(text), FoldedKeywords[x][y])})

FoldedResult(text) ==
    LET scores == [x \in 1..Len(DomainKeywords) |->
                      DomainScore(DomainKeywords[x].keywords, FoldedMatches(x, text),
                                  WordCount(text))]
        best == FirstMaxIndex(scores)
    IN  IF Len(text) = 0 \/ FracLeq(scores[best], Frac(0, 1))
             \/ ~FracLeq(Frac(21, 100), scores[best])
        THEN [domain |-> "general", confidence |-> Frac(1, 1)]
        ELSE [domain |-> DomainKeywords[best].name, confidence |-> scores[best]]

C27_MatchingIgnoresCase ==
    dd_pc = "return" =>
        /\ \A x \in 1..Len(DomainKeywords) :
              KeywordMatches(DomainKeywords[x].keywords, Lower(dd_text)) = FoldedMatches(x, dd_text)
        /\ FracEq(dd_result.confidence, FoldedResult(dd_text).confidence)
        /\ dd_result.domain = FoldedResult(dd_text).domain

\* the same, for the keywords the table writes in lower case
C27_LowerCaseKeywordsMatch ==
    dd_pc = "return" =>
        \A x \in 1..Len(DomainKeywords) :
            \A y \in 1..Len(DomainKeywords[x].keywords) :
                LET keyword == DomainKeywords[x].keywords[y]
                IN  keyword = Lower(keyword) =>
                        (Contains(dd_text, keyword) => Contains(Lower(dd_text), keyword))

(***************************************************************************)
(* C28 as claimed: an ingestion that returns has written the points with   *)
(* the chunk indices 1..n of its call and nothing else: every point the    *)
(* store held of another doc_id, or of this doc_id with an index above n,  *)
(* is still in the store unchanged, and every point of the store was there *)
(* before or is one of the n just written.                                 *)
(***************************************************************************)
WrittenByCall(p) == p.doc_id = ing_doc /\ p.chunk \in 1..ing_result.chunks

C28_IngestKeepsOtherPoints ==
    (ing_pc = "done" /\ ing_result.ok) =>
        /\ \A p \in ing_before : ~WrittenByCall(p) => p \in store_points
        /\ \A p \in store_points : WrittenByCall(p) \/ p \in ing_before

\* the same for the upsert step alone, whatever _ensure_collection did before:
\* _upsert_passages leaves every point it does not write as it was
C28_UpsertKeepsOtherPoints ==
    [][(ing_pc = "upsert" /\ ing_pc' = "done" /\ ing_result'.ok) =>
          /\ \A p \in store_points :
                (p.doc_id # ing_doc \/ p.chunk > ing_result'.chunks) => p \in store_points'
          /\ \A p \in store_points' :
                \/ p \in store_points
                \/ p.doc_id = ing_doc /\ p.chunk \in 1..ing_result'.chunks]_vars

\* a document of two chunks re-ingested with one: the second point stays
C28_OlderChunkStays ==
    /\ ing_pc = "done"
    /\ ing_result = [ok |-> TRUE, chunks |-> 1]
    /\ ing_passages.given
    /\ \E p \in ing_before \cap store_points : p.doc_id = ing_doc /\ p.chunk = 2
    /\ \E p \in store_points \ ing_before : p.doc_id = ing_doc /\ p.chunk = 1

(***************************************************************************)
(* C29: when the availability probe fails, by an exception or by a status  *)
(* other than 200, the cache is the empty list, whatever it held before;   *)
(* the cache is never None after construction, so a resolution never       *)
(* probes by itself and leaves the cache as it is; and every               *)
(* select_model_for_task made while the last probe is a failed one returns *)
(* the configured preferred model itself, unresolved.                      *)
(***************************************************************************)
ProbeFailed == probe_answer \in {"status", "exception"}

FailedProbeEmptiesCache ==
    /\ ~available_models.none
    /\ ProbeFailed => available_models = ListOfModels({})

FailedProbeGivesPreferred ==
    (sel_pc = "selected" /\ ProbeFailed) =>
        /\ sel_preferred = PreferredForTask(cfg, sel_task, sel_domain, sel_query)
        /\ sel_result = sel_preferred

ResolutionKeepsCache ==
    (sel_pc = "idle" /\ sel_pc' # "idle") => UNCHANGED <<available_models, probe_answer>>

C29_FailedProbeLeavesPreferred ==
    /\ [](FailedProbeEmptiesCache /\ FailedProbeGivesPreferred)
    /\ [][ResolutionKeepsCache]_vars

\* after a probe that got another status than 200, a code generation request is
\* given the configured code model although the default model is another one
C29_Witness ==
    /\ sel_pc = "selected"
    /\ probe_answer = "status"
    /\ sel_task = "code_generation"
    /\ sel_result = cfg.code_generation_model
    /\ sel_result # cfg.ollama_model

(***************************************************************************)
(* The crawler router.  crawl_jobs maps a job_id to its entry; an entry    *)
(* carries the number of the start_crawl call that created it, a task the  *)
(* job_id it was given and the number of the call that scheduled it.  The  *)
(* handlers and the tasks run on one event loop: a step runs from one      *)
(* await to the next.                                                      *)
(***************************************************************************)
\* the documents crawl_urls can return: none, or one page
CrawledDocs == {<<>>, <<[doc_id |-> "web_technical_1", content |-> "Title: Azure Functions"]>>}

\* what core.ingest_text does to the collection for one document: it returns
\* the chunk count, or raises before the write (the except of the loop logs
\* it), in both cases with or without _ensure_collection having recreated the
\* collection
IngestOutcomes == {"upserted", "recreated", "raised", "emptied"}

StoreAfterIngest(points, doc, outcome) ==
    LET new == PassagePoints(doc.doc_id,
                             ChunkTextOf(doc.content, IngestMaxTokens, IngestOverlapTokens))
    IN  IF outcome = "upserted" THEN Upserted(points, new)
        ELSE IF outcome = "recreated" THEN new
        ELSE IF outcome = "emptied" THEN {}
        ELSE points

\* POST /crawler/crawl with a job_id that is not in crawl_jobs (400 otherwise):
\* the entry is created "queued" and the task is handed to background_tasks
StartCrawl ==
    /\ crawl_count < MaxCrawls
    /\ \E job_id \in CrawlJobIds :
          /\ ~crawl_jobs[job_id].present
          /\ crawl_jobs' = [crawl_jobs EXCEPT ![job_id] =
                               [present |-> TRUE, status |-> "queued",
                                created |-> crawl_count + 1]]
          /\ crawl_tasks' = [crawl_tasks EXCEPT ![crawl_count + 1] =
                                [pc |-> "scheduled", job_id |-> job_id,
                                 created |-> crawl_count + 1]]
    /\ crawl_count' = crawl_count + 1
    /\ UNCHANGED storeVars
    /\ UNCHANGED notCrawlVars

\* DELETE /crawler/jobs/{job_id} (404 when absent): del crawl_jobs[job_id]
DeleteCrawlJob ==
    /\ \E job_id \in CrawlJobIds :
          /\ crawl_jobs[job_id].present
          /\ crawl_jobs' = [crawl_jobs EXCEPT ![job_id] = NoJob]
    /\ UNCHANGED <<crawl_tasks, crawl_count, storeVars>>
    /\ UNCHANGED notCrawlVars

\* crawl_jobs[job_id][...] = ... and crawl_jobs[job_id].update(...): the entry
\* found under job_id is changed in place
JobUpdated(jobs, job_id, status) == [jobs EXCEPT ![job_id].status = status]

\* crawl_and_ingest up to its first await: status "running"; without an entry
\* the KeyError sends it to the except clause, whose update raises KeyError again
TaskStart ==
    /\ \E t \in 1..MaxCrawls :
          /\ crawl_tasks[t].pc = "scheduled"
          /\ IF crawl_jobs[crawl_tasks[t].job_id].present
             THEN /\ crawl_jobs' = JobUpdated(crawl_jobs, crawl_tasks[t].job_id, "running")
                  /\ crawl_tasks' = [crawl_tasks EXCEPT ![t].pc = "crawling"]
             ELSE /\ crawl_tasks' = [crawl_tasks EXCEPT ![t].pc = "crashed"]
                  /\ UNCHANGED crawl_jobs
    /\ UNCHANGED <<crawl_count, storeVars>>
    /\ UNCHANGED notCrawlVars

\* crawl_urls has returned: the ingest loop and the update to "completed"; or
\* it has raised: the update to "failed" of the except clause
TaskCrawled ==
    /\ \E t \in 1..MaxCrawls, crawled \in BOOLEAN, documents \in CrawledDocs,
          outcome \in IngestOutcomes :
          LET job_id == crawl_tasks[t].job_id
              ingests == crawled /\ Len(documents) > 0
          IN  /\ crawl_tasks[t].pc = "crawling"
              /\ store_points' = IF ingests
                                 THEN StoreAfterIngest(store_points, documents[1], outcome)
                                 ELSE store_points
              /\ IF crawl_jobs[job_id].present
                 THEN /\ crawl_jobs' = JobUpdated(crawl_jobs, job_id,
                                                  IF crawled THEN "completed" ELSE "failed")
                      /\ crawl_tasks' = [crawl_tasks EXCEPT ![t].pc =
                                            IF crawled THEN "closing" ELSE "done"]
                 ELSE /\ crawl_tasks' = [crawl_tasks EXCEPT ![t].pc = "crashed"]
                      /\ UNCHANGED crawl_jobs
    /\ UNCHANGED <<crawl_count, store_exists>>
    /\ UNCHANGED notCrawlVars

\* the end of "async with WebCrawler(config)": the session is closed
TaskClosed ==
    /\ \E t \in 1..MaxCrawls :
          /\ crawl_tasks[t].pc = "closing"
          /\ crawl_tasks' = [crawl_tasks EXCEPT ![t].pc = "done"]
    /\ UNCHANGED <<crawl_jobs, crawl_count, storeVars>>
    /\ UNCHANGED notCrawlVars

(***************************************************************************)
(* C30 as claimed: in every step, the status of an entry of crawl_jobs     *)
(* stays or moves forward, queued to running to completed or failed, a     *)
(* completed or failed status is never overwritten, and a task that        *)
(* changes crawl_jobs changes the entry that start_crawl created for it.   *)
(***************************************************************************)
StatusForward(old, new) ==
    \/ new = old
    \/ old = "queued" /\ new = "running"
    \/ old = "running" /\ new \in {"completed", "failed"}

\* a step of task t
TaskStepped(t) == crawl_tasks[t].pc # "unused" /\ crawl_tasks'[t] # crawl_tasks[t]

CrawlStep ==
    /\ \A job_id \in CrawlJobIds :
          (/\ crawl_jobs[job_id].present
           /\ crawl_jobs'[job_id].present
           /\ crawl_jobs'[job_id].created = crawl_jobs[job_id].created)
              => StatusForward(crawl_jobs[job_id].status, crawl_jobs'[job_id].status)
    /\ \A t \in 1..MaxCrawls :
          (TaskStepped(t) /\ crawl_jobs' # crawl_jobs)
              => crawl_jobs[crawl_tasks[t].job_id].created = crawl_tasks[t].created

C30_StatusOnlyForward == [][CrawlStep]_vars

\* a task has written into the entry of a later start_crawl
C30_ForeignEntryWritten ==
    \E t \in 1..MaxCrawls :
        /\ crawl_tasks[t].pc \in {"closing", "done"}
        /\ crawl_jobs[crawl_tasks[t].job_id].present
        /\ crawl_jobs[crawl_tasks[t].job_id].created > crawl_tasks[t].created
        /\ crawl_jobs[crawl_tasks[t].job_id].status \in {"completed", "failed"}
        /\ crawl_tasks[crawl_jobs[crawl_tasks[t].job_id].created].pc = "scheduled"

(***************************************************************************)
(* The specifications: one per operation called on its own.                *)
(***************************************************************************)
InitCite == CiteInit /\ ChunkIdle /\ RouterIdle /\ PipelineIdle

NextCite == CiteCall

SpecCite == InitCite /\ [][NextCite]_vars

InitChunk == ChunkInit /\ CiteIdle /\ RouterIdle /\ PipelineIdle

NextChunk == ChunkCall \/ ChunkStep

SpecChunk == InitChunk /\ [][NextChunk]_vars

InitRouter == RouterInit /\ CiteIdle /\ ChunkIdle /\ PipelineIdle

NextRouter ==
    \/ CheckModelAvailability
    \/ GetAvailableModelCall
    \/ SelectModelForTask
    \/ SelectionReturned

SpecRouter == InitRouter /\ [][NextRouter]_vars


\* the service: ingestion and ask requests against one RagCore
Init == RagCoreInit /\ CiteIdle /\ ChunkIdle

Next ==
    \/ IngestTextCall
    \/ EnsureListCollections
    \/ EnsureCreateCollection
    \/ EnsureRecreateCollection
    \/ IngestUpsert
    \/ IngestReturned
    \/ AskLocalCall
    \/ AskWithModelSelectionCall
    \/ AskEnhancedCall
    \/ SearchQueryPoints
    \/ SearchOlderClient
    \/ RerankHits
    \/ BuildPromptStep
    \/ OllamaGenerate
    \/ OllamaChat
    \/ ValidateAnswer
    \/ RequestReturned

Spec == Init /\ [][Next]_vars

\* rerank on its own
InitRerank ==
    /\ RerankInit
    /\ CiteIdle /\ ChunkIdle /\ RouterIdle
    /\ StoreInit /\ IngestInit /\ ReqInit /\ DomainIdle /\ PromptIdle /\ RaceIdle
    /\ StartupIdle /\ CrawlIdle

NextRerank == RerankCall

SpecRerank == InitRerank /\ [][NextRerank]_vars

\* detect_domain on its own
InitDomain ==
    /\ DomainInit
    /\ CiteIdle /\ ChunkIdle /\ RouterIdle
    /\ StoreInit /\ IngestInit /\ ReqInit /\ RerankIdle /\ PromptIdle /\ RaceIdle
    /\ StartupIdle /\ CrawlIdle

NextDomain == DetectDomainCall

SpecDomain == InitDomain /\ [][NextDomain]_vars

(***************************************************************************)
(* GET /rag/search and GET /ask on the seeded store.                       *)
(***************************************************************************)
InitSearch == RagCoreInit /\ CiteIdle /\ ChunkIdle

NextSearch ==
    \/ RagSearchCall
    \/ AskWithModelSelectionCall
    \/ SearchQueryPoints
    \/ SearchOlderClient
    \/ RerankHits
    \/ RagSearchTop
    \/ BuildPromptStep
    \/ OllamaGenerate
    \/ OllamaChat
    \/ ValidateAnswer
    \/ RequestReturned

SpecSearch == InitSearch /\ [][NextSearch]_vars

\* build_prompt on its own
InitPrompt ==
    /\ PromptInit
    /\ CiteIdle /\ ChunkIdle /\ RouterIdle
    /\ StoreInit /\ IngestInit /\ ReqInit /\ RerankIdle /\ DomainIdle /\ RaceIdle
    /\ StartupIdle /\ CrawlIdle

NextPrompt == BuildPromptCall

SpecPrompt == InitPrompt /\ [][NextPrompt]_vars

(***************************************************************************)
(* One resolution next to one refresh of the cache.                        *)
(***************************************************************************)
InitRace == RagCoreInit /\ CiteIdle /\ ChunkIdle

NextRace ==
    \/ ResolveStart
    \/ ResolveNoneCheck
    \/ ResolveSnapshot
    \/ ResolveReturn
    \/ ResolveReturned
    \/ RefreshProbe
    \/ RefreshAssign

SpecRace == InitRace /\ [][NextRace]_vars

(***************************************************************************)
(* The collection setup of __init__. The thread runs on: every store call  *)
(* has the client's timeout and time.sleep returns, so a step that can be  *)
(* taken is taken.                                                         *)
(***************************************************************************)
InitStartup ==
    /\ StartupInit
    /\ CiteIdle /\ ChunkIdle /\ RouterIdle
    /\ IngestInit /\ ReqInit /\ RerankIdle /\ DomainIdle /\ PromptIdle /\ RaceIdle
    /\ CrawlIdle

NextStartup ==
    \/ EnsureAttempt
    \/ RetrySleep

SpecStartup == InitStartup /\ [][NextStartup]_vars /\ WF_vars(NextStartup)

(***************************************************************************)
(* Ingestion on its own: ingest_text and ingest_plain_chunks on one store. *)
(***************************************************************************)
InitIngest == RouterIdle /\ CiteIdle /\ ChunkIdle /\ PipelineIdle

NextIngest ==
    \/ IngestTextCall
    \/ IngestPlainChunksCall
    \/ EnsureListCollections
    \/ EnsureCreateCollection
    \/ EnsureRecreateCollection
    \/ IngestUpsert
    \/ IngestReturned

SpecIngest == InitIngest /\ [][NextIngest]_vars

(***************************************************************************)
(* The crawler router on its own: requests and background tasks            *)
(* interleaved on the event loop.                                          *)
(***************************************************************************)
InitCrawl == CiteIdle /\ ChunkIdle /\ RouterIdle /\ PipelineIdle

NextCrawl ==
    \/ StartCrawl
    \/ DeleteCrawlJob
    \/ TaskStart
    \/ TaskCrawled
    \/ TaskClosed

SpecCrawl == InitCrawl /\ [][NextCrawl]_vars

=============================================================================
